---- MODULE Spec2Model ----
(***************************************************************************)
(* The Intcode interpreter of intcode_vm/src/lib.rs: paged memory,         *)
(* instruction decoder, executor, and the two run loops, driven by a host  *)
(* that pushes inputs and calls the public operations.                     *)
(*                                                                         *)
(* Numbers.  ProgramElement is isize and addresses are usize.  TLC's       *)
(* integers are 32 bits wide, so the machine word is modelled with         *)
(* UsizeModulus = 2^30 in place of 2^64; PAGE_SIZE still divides it, and   *)
(* every value the explored programs compute stays far inside the signed   *)
(* range, so no signed overflow is ever reached.                           *)
(***************************************************************************)
EXTENDS Integers, Sequences, FiniteSets, TLC

\* ------------------------------------------------------------------ bounds

\* Most input values the host supplies to one instance (initial queue plus pushes).
MaxInputs == 2

\* The values the host supplies as inputs.
InputValues == {0, 4, -1}

\* ------------------------------------------------------- machine integers

UsizeModulus == 2^30

\* The conversion as it would be if a negative address were taken for
\* address 0.
AsUsizeClamped(x) == IF x < 0 THEN 0 ELSE x % UsizeModulus

\* `x as usize` of an isize: two's complement wraparound.
AsUsize(x) == x % UsizeModulus

\* `x as u8` of an isize.
AsU8(x) == x % 256

\* Rust's `/` and `%` on signed integers truncate towards zero.
RustDiv(a, b) == IF a >= 0 THEN a \div b ELSE -((-a) \div b)

RustRem(a, b) == IF a >= 0 THEN a % b ELSE -((-a) % b)

\* usize addition (program_counter + i, program_counter += length).
UsizeAdd(a, b) == (a + b) % UsizeModulus

\* ----------------------------------------------------------- PagedMemory

PAGE_SIZE == 256

\* [T::default(); PAGE_SIZE]
DefaultPage == [o \in 0..(PAGE_SIZE - 1) |-> 0]

\* PagedMemory::new: no page allocated.  A memory is a function from the
\* allocated page indices to pages.
PagedMemoryNew == [index \in {} |-> DefaultPage]

read_addr(pages, addr) ==
    LET index  == addr \div PAGE_SIZE
        offset == addr % PAGE_SIZE
    IN  IF index \in DOMAIN pages THEN pages[index][offset] ELSE 0

\* read_addr as it would be with `entry().or_insert` in place of `get`: the
\* page read is allocated.
ReadAddrEffectAllocating(pages, addr) ==
    LET index == addr \div PAGE_SIZE
    IN  [ pages |-> [i \in (DOMAIN pages) \cup {index} |->
                        IF i \in DOMAIN pages THEN pages[i] ELSE DefaultPage],
          value |-> read_addr(pages, addr) ]

\* read_addr as a call: it borrows the memory immutably (`&self`) and looks
\* the page up with `get`, so the page map it leaves is the one it found.
ReadAddrEffect(pages, addr) ==
    [ pages |-> pages, value |-> read_addr(pages, addr) ]

\* write_addr as it would be with `insert` in place of `entry().or_insert`:
\* the page is replaced by a fresh one on every write.
write_addrFreshPage(pages, addr, value) ==
    LET index  == addr \div PAGE_SIZE
        offset == addr % PAGE_SIZE
    IN  [i \in (DOMAIN pages) \cup {index} |->
            IF i = index THEN [DefaultPage EXCEPT ![offset] = value] ELSE pages[i]]

\* write_addr as it would be if the page index were dropped: every write
\* lands in page 0.
write_addrFirstPage(pages, addr, value) ==
    LET index  == 0
        offset == addr % PAGE_SIZE
        page   == IF index \in DOMAIN pages THEN pages[index] ELSE DefaultPage
    IN  [i \in (DOMAIN pages) \cup {index} |->
            IF i = index THEN [page EXCEPT ![offset] = value] ELSE pages[i]]

write_addr(pages, addr, value) ==
    LET index  == addr \div PAGE_SIZE
        offset == addr % PAGE_SIZE
        page   == IF index \in DOMAIN pages THEN pages[index] ELSE DefaultPage
    IN  [i \in (DOMAIN pages) \cup {index} |->
            IF i = index THEN [page EXCEPT ![offset] = value] ELSE pages[i]]

\* impl From<I> for PagedMemory: write source[k] at address k-1, in order.
RECURSIVE WriteFrom(_, _, _)
WriteFrom(pages, source, k) ==
    IF k > Len(source) THEN pages
    ELSE WriteFrom(write_addr(pages, k - 1, source[k]), source, k + 1)

PagedMemoryFrom(source) == WriteFrom(PagedMemoryNew, source, 1)

\* ------------------------------------------------------------ ProgramState

\* ProgramState::new as it would be if it left the input queue empty the way
\* load_program_file does.
ProgramStateNewEmptyInputs(source, inputs0) ==
    [ mem             |-> PagedMemoryFrom(source),
      inputs          |-> << >>,
      outputs         |-> << >>,
      program_counter |-> 0,
      relative_base   |-> 0,
      terminated      |-> FALSE ]

\* ProgramState::new
ProgramStateNew(source, inputs0) ==
    [ mem             |-> PagedMemoryFrom(source),
      inputs          |-> inputs0,
      outputs         |-> << >>,
      program_counter |-> 0,
      relative_base   |-> 0,
      terminated      |-> FALSE ]

\* -------------------------------------------------------------- decoding

\* The conversion as it would be if an unknown code fell back to Position.
ParameterModeFromLenient(code) ==
    CASE code = 1 -> "Immediate"
      [] code = 2 -> "Relative"
      [] OTHER    -> "Position"

\* impl From<u8> for ParameterMode
ParameterModeFrom(code) ==
    CASE code = 0 -> "Position"
      [] code = 1 -> "Immediate"
      [] code = 2 -> "Relative"
      [] OTHER    -> "Unrecognized"

\* from_element as it would be with a remainder that is never negative
\* (rem_euclid): -1 selects 99.
OpCodeFromElementEuclid(element) ==
    LET code == element % 100
    IN  CASE code = 1  -> "Add"
          [] code = 2  -> "Multiply"
          [] code = 3  -> "ReadInput"
          [] code = 4  -> "WriteOutput"
          [] code = 5  -> "JumpIfTrue"
          [] code = 6  -> "JumpIfFalse"
          [] code = 7  -> "LessThan"
          [] code = 8  -> "Equals"
          [] code = 9  -> "AdjustRelativeBase"
          [] code = 99 -> "Terminate"
          [] OTHER     -> "Unrecognized"

\* from_element as it would be if the word 0 of an untouched cell were
\* taken for the end of the program.
OpCodeFromElementZeroHalts(element) ==
    LET code == RustRem(element, 100)
    IN  CASE code = 1  -> "Add"
          [] code = 2  -> "Multiply"
          [] code = 3  -> "ReadInput"
          [] code = 4  -> "WriteOutput"
          [] code = 5  -> "JumpIfTrue"
          [] code = 6  -> "JumpIfFalse"
          [] code = 7  -> "LessThan"
          [] code = 8  -> "Equals"
          [] code = 9  -> "AdjustRelativeBase"
          [] code = 99 -> "Terminate"
          [] code = 0  -> "Terminate"
          [] OTHER     -> "Unrecognized"

\* OpCode::from_element
OpCodeFromElement(element) ==
    LET code == RustRem(element, 100)
    IN  CASE code = 1  -> "Add"
          [] code = 2  -> "Multiply"
          [] code = 3  -> "ReadInput"
          [] code = 4  -> "WriteOutput"
          [] code = 5  -> "JumpIfTrue"
          [] code = 6  -> "JumpIfFalse"
          [] code = 7  -> "LessThan"
          [] code = 8  -> "Equals"
          [] code = 9  -> "AdjustRelativeBase"
          [] code = 99 -> "Terminate"
          [] OTHER     -> "Unrecognized"

\* OpCode::length
OpCodeLength(opcode) ==
    CASE opcode = "Add"                -> 4
      [] opcode = "Multiply"           -> 4
      [] opcode = "ReadInput"          -> 2
      [] opcode = "WriteOutput"        -> 2
      [] opcode = "JumpIfTrue"         -> 3
      [] opcode = "JumpIfFalse"        -> 3
      [] opcode = "LessThan"           -> 4
      [] opcode = "Equals"             -> 4
      [] opcode = "AdjustRelativeBase" -> 2
      [] opcode = "Terminate"          -> 1

\* The loop of fetch_and_decode as it would be without
\* `parameter_modes /= 10`: every parameter gets the first mode digit.
RECURSIVE DecodeParametersNoShift(_, _, _, _)
DecodeParametersNoShift(state, parameter_modes, i, length) ==
    IF i >= length THEN << >>
    ELSE LET mode     == ParameterModeFrom(AsU8(RustRem(parameter_modes, 10)))
             contents == read_addr(state.mem, UsizeAdd(state.program_counter, i))
         IN  << [mode |-> mode, contents |-> contents] >>
             \o DecodeParametersNoShift(state, parameter_modes, i + 1, length)

\* The loop as it would be if mode digits left over after the last
\* parameter were converted too, and so rejected unless zero.
RECURSIVE DecodeParametersStrict(_, _, _, _)
DecodeParametersStrict(state, parameter_modes, i, length) ==
    IF i >= length
    THEN IF parameter_modes = 0 THEN << >>
         ELSE << [mode |-> "Unrecognized", contents |-> 0] >>
    ELSE LET mode     == ParameterModeFrom(AsU8(RustRem(parameter_modes, 10)))
             contents == read_addr(state.mem, UsizeAdd(state.program_counter, i))
         IN  << [mode |-> mode, contents |-> contents] >>
             \o DecodeParametersStrict(state, RustDiv(parameter_modes, 10), i + 1, length)

\* The loop of fetch_and_decode: parameters i .. length-1, parameter_modes
\* being what is left of raw_instr / 100 after i-1 divisions by 10.
RECURSIVE DecodeParameters(_, _, _, _)
DecodeParameters(state, parameter_modes, i, length) ==
    IF i >= length THEN << >>
    ELSE LET mode     == ParameterModeFrom(AsU8(RustRem(parameter_modes, 10)))
             contents == read_addr(state.mem, UsizeAdd(state.program_counter, i))
         IN  << [mode |-> mode, contents |-> contents] >>
             \o DecodeParameters(state, RustDiv(parameter_modes, 10), i + 1, length)

\* Instruction::fetch_and_decode.  A panic is a record with the panic field
\* only; the unrecognized opcode is found before any mode is looked at.
fetch_and_decode(state) ==
    LET raw_instr == read_addr(state.mem, state.program_counter)
        opcode    == OpCodeFromElement(raw_instr)
    IN  IF opcode = "Unrecognized"
        THEN [panic |-> "UnrecognizedOpcode"]
        ELSE LET parameters ==
                     DecodeParameters(state, RustDiv(raw_instr, 100), 1,
                                      OpCodeLength(opcode))
             IN  IF \E k \in 1..Len(parameters) :
                        parameters[k].mode = "Unrecognized"
                 THEN [panic |-> "UnrecognizedMode"]
                 ELSE [opcode |-> opcode, parameters |-> parameters]

Decoded(instr) == "opcode" \in DOMAIN instr

\* ------------------------------------------------------------- execution

\* Parameter::read
ParameterRead(p, state) ==
    CASE p.mode = "Position"  -> read_addr(state.mem, AsUsize(p.contents))
      [] p.mode = "Immediate" -> p.contents
      [] p.mode = "Relative"  ->
            read_addr(state.mem, AsUsize(state.relative_base + p.contents))

\* The address as it would be if Relative mode left relative_base out.
WriteTargetNoBase(p, state) ==
    CASE p.mode = "Position" -> AsUsize(p.contents)
      [] p.mode = "Relative" -> AsUsize(p.contents)

\* The address Parameter::write writes to (Position and Relative modes).
WriteTarget(p, state) ==
    CASE p.mode = "Position" -> AsUsize(p.contents)
      [] p.mode = "Relative" -> AsUsize(state.relative_base + p.contents)

\* Parameter::write as it would be if a write to an Immediate target were
\* dropped instead of panicking.
ParameterWriteIgnoring(p, state, value) ==
    IF p.mode = "Immediate"
    THEN [state |-> state, result |-> "Ok"]
    ELSE [state  |-> [state EXCEPT !.mem = write_addr(@, WriteTarget(p, state), value)],
          result |-> "Ok"]

\* Parameter::write: the outcome of the step whose last effect is this write.
\* An Immediate target panics, with the state as it is at that moment.
ParameterWrite(p, state, value) ==
    IF p.mode = "Immediate"
    THEN [state |-> state, result |-> "PanicImmediateWrite"]
    ELSE [state  |-> [state EXCEPT !.mem = write_addr(@, WriteTarget(p, state), value)],
          result |-> "Ok"]

\* Instruction::read_param / write_param (idx is 0-based in the source).
read_param(instr, idx, state) == ParameterRead(instr.parameters[idx + 1], state)

write_param(instr, idx, state, value) ==
    ParameterWrite(instr.parameters[idx + 1], state, value)

\* The default advance as it would be if it counted the parameters only.
AdvanceByParameters(instr, out, jumped) ==
    IF out.result # "Ok" THEN out
    ELSE IF jumped THEN out
    ELSE [out EXCEPT !.state.program_counter =
              UsizeAdd(@, Len(instr.parameters))]

\* The tail of Instruction::execute: `if !jumped { pc += length }; Ok(())`,
\* reached only when the match arm neither returned nor panicked.
Advance(instr, out, jumped) ==
    IF out.result # "Ok" THEN out
    ELSE IF jumped THEN out
    ELSE [out EXCEPT !.state.program_counter =
              UsizeAdd(@, OpCodeLength(instr.opcode))]

Done(state) == [state |-> state, result |-> "Ok"]

\* ReadInput as it would be with the default advance applied to a blocked
\* read as well.
ExecReadInputAdvancing(instr, state) ==
    IF state.inputs = << >>
    THEN [state  |-> [state EXCEPT !.program_counter =
                          UsizeAdd(@, OpCodeLength(instr.opcode))],
          result |-> "NoInput"]
    ELSE Advance(instr,
                 write_param(instr, 0,
                             [state EXCEPT !.inputs = Tail(@)],
                             Head(state.inputs)),
                 FALSE)

\* ReadInput as it would be if it asked for input one value too early.
ExecReadInputEarly(instr, state) ==
    IF Len(state.inputs) <= 1
    THEN [state |-> state, result |-> "NoInput"]
    ELSE Advance(instr,
                 write_param(instr, 0,
                             [state EXCEPT !.inputs = Tail(@)],
                             Head(state.inputs)),
                 FALSE)

\* ReadInput as it would be if the value were written without being removed
\* from the queue.
ExecReadInputPeeking(instr, state) ==
    IF state.inputs = << >>
    THEN [state |-> state, result |-> "NoInput"]
    ELSE Advance(instr,
                 write_param(instr, 0, state, Head(state.inputs)),
                 FALSE)

\* ReadInput as it would be if the destination were checked before the value
\* is taken: a write to an Immediate target panics with the queue intact.
ExecReadInputChecked(instr, state) ==
    IF state.inputs = << >>
    THEN [state |-> state, result |-> "NoInput"]
    ELSE IF instr.parameters[1].mode = "Immediate"
    THEN [state |-> state, result |-> "PanicImmediateWrite"]
    ELSE Advance(instr,
                 write_param(instr, 0,
                             [state EXCEPT !.inputs = Tail(@)],
                             Head(state.inputs)),
                 FALSE)

\* The ReadInput arm: pop_front, NoInput when the queue is empty (`?`
\* returns before anything is changed), else write the value.
ExecReadInput(instr, state) ==
    IF state.inputs = << >>
    THEN [state |-> state, result |-> "NoInput"]
    ELSE Advance(instr,
                 write_param(instr, 0,
                             [state EXCEPT !.inputs = Tail(@)],
                             Head(state.inputs)),
                 FALSE)

\* Terminate as it would be if it toggled the flag.
ExecTerminateToggling(instr, state) ==
    Advance(instr, Done([state EXCEPT !.terminated = ~@]), FALSE)

\* The Terminate arm.
ExecTerminate(instr, state) ==
    Advance(instr, Done([state EXCEPT !.terminated = TRUE]), FALSE)

\* JumpIfTrue as it would be if `jumped` were never set.
ExecJumpIfTrueAdvancing(instr, state) ==
    LET test == read_param(instr, 0, state)
    IN  IF test # 0
        THEN Advance(instr,
                     Done([state EXCEPT !.program_counter =
                               AsUsize(read_param(instr, 1, state))]),
                     FALSE)
        ELSE Advance(instr, Done(state), FALSE)

\* The JumpIfTrue arm: the target is read only when the jump is taken.
ExecJumpIfTrue(instr, state) ==
    LET test == read_param(instr, 0, state)
    IN  IF test # 0
        THEN Advance(instr,
                     Done([state EXCEPT !.program_counter =
                               AsUsize(read_param(instr, 1, state))]),
                     TRUE)
        ELSE Advance(instr, Done(state), FALSE)

\* JumpIfFalse as it would be with `!=` in place of `==`.
ExecJumpIfFalseNonZero(instr, state) ==
    LET test == read_param(instr, 0, state)
    IN  IF test # 0
        THEN Advance(instr,
                     Done([state EXCEPT !.program_counter =
                               AsUsize(read_param(instr, 1, state))]),
                     TRUE)
        ELSE Advance(instr, Done(state), FALSE)

\* The JumpIfFalse arm.
ExecJumpIfFalse(instr, state) ==
    LET test == read_param(instr, 0, state)
    IN  IF test = 0
        THEN Advance(instr,
                     Done([state EXCEPT !.program_counter =
                               AsUsize(read_param(instr, 1, state))]),
                     TRUE)
        ELSE Advance(instr, Done(state), FALSE)

\* LessThan as it would be with `<=` in place of `<`.
ExecLessThanOrEqual(instr, state) ==
    LET a == read_param(instr, 0, state)
        b == read_param(instr, 1, state)
    IN  Advance(instr,
                write_param(instr, 2, state, IF a <= b THEN 1 ELSE 0), FALSE)

\* The LessThan arm.
ExecLessThan(instr, state) ==
    LET a == read_param(instr, 0, state)
        b == read_param(instr, 1, state)
    IN  Advance(instr,
                write_param(instr, 2, state, IF a < b THEN 1 ELSE 0), FALSE)

\* AdjustRelativeBase as it would be with `=` in place of `+=`.
ExecAdjustRelativeBaseSetting(instr, state) ==
    Advance(instr,
            Done([state EXCEPT !.relative_base = read_param(instr, 0, state)]),
            FALSE)

\* The AdjustRelativeBase arm.
ExecAdjustRelativeBase(instr, state) ==
    Advance(instr,
            Done([state EXCEPT !.relative_base =
                      @ + read_param(instr, 0, state)]),
            FALSE)

\* WriteOutput as it would be with push_front in place of push_back.
ExecWriteOutputFront(instr, state) ==
    Advance(instr,
            Done([state EXCEPT !.outputs =
                      << read_param(instr, 0, state) >> \o @]),
            FALSE)

\* The WriteOutput arm as it would be if it looked at the queue: a value is
\* pushed only when no earlier output is waiting.
ExecWriteOutputIfEmpty(instr, state) ==
    Advance(instr,
            Done([state EXCEPT !.outputs =
                      IF @ = << >> THEN Append(@, read_param(instr, 0, state))
                      ELSE @]),
            FALSE)

\* The WriteOutput arm: outputs.push_back of the value read.
ExecWriteOutput(instr, state) ==
    Advance(instr,
            Done([state EXCEPT !.outputs =
                      Append(@, read_param(instr, 0, state))]),
            FALSE)

\* Instruction::execute
execute(instr, state) ==
    LET op == instr.opcode
        a  == read_param(instr, 0, state)
        b  == read_param(instr, 1, state)
    IN  CASE op = "Add" ->
               Advance(instr, write_param(instr, 2, state, a + b), FALSE)
          [] op = "Multiply" ->
               Advance(instr, write_param(instr, 2, state, a * b), FALSE)
          [] op = "ReadInput" -> ExecReadInput(instr, state)
          [] op = "WriteOutput" -> ExecWriteOutput(instr, state)
          [] op = "JumpIfTrue" -> ExecJumpIfTrue(instr, state)
          [] op = "JumpIfFalse" -> ExecJumpIfFalse(instr, state)
          [] op = "LessThan" -> ExecLessThan(instr, state)
          [] op = "Equals" ->
               Advance(instr,
                       write_param(instr, 2, state, IF a = b THEN 1 ELSE 0), FALSE)
          [] op = "AdjustRelativeBase" -> ExecAdjustRelativeBase(instr, state)
          [] op = "Terminate" -> ExecTerminate(instr, state)

\* progress_state as it would be if every failure of the step were reported
\* as NoInput.
progress_stateMasking(state) ==
    LET instr == fetch_and_decode(state)
        out   == IF Decoded(instr) THEN execute(instr, state)
                 ELSE [state |-> state, result |-> "Panic" \o instr.panic]
    IN  IF out.result = "Ok" THEN out ELSE [out EXCEPT !.result = "NoInput"]

\* ProgramState::progress_state: decode, then execute.  The outcome is the
\* state after the step and "Ok", "NoInput" or the panic.
progress_state(state) ==
    LET instr == fetch_and_decode(state)
    IN  IF Decoded(instr) THEN execute(instr, state)
        ELSE [state |-> state, result |-> "Panic" \o instr.panic]

IsPanic(result) == result \notin {"Ok", "NoInput", "None"}

\* ----------------------------------------------------------- the programs

\* The program images the host loads.  1-4 are the images of the crate's own
\* tests; the others exercise input, output, jumps, the relative base, far
\* addresses, self-modification and each fault.
TestAdd        == << 1, 0, 0, 0, 99 >>
TestMul        == << 2, 3, 0, 3, 99 >>
TestNontrivial == << 1, 1, 1, 4, 99, 5, 6, 0, 99 >>
TestJumpIfTrue == << 3, 12, 6, 12, 15, 1, 13, 14, 13, 4, 13, 99, -1, 0, 1, 9 >>
\* read a, write a, read b, write a+b
EchoSum        == << 3, 13, 4, 13, 3, 14, 1, 13, 14, 13, 4, 13, 99, 0, 0 >>
\* jump to its own address for ever
Spin           == << 1105, 1, 0 >>
\* relative_base := 7, read into rb+0, write from rb+0
RelativeEcho   == << 109, 7, 203, 0, 204, 0, 99, 0 >>
\* echo every input up to the first 0
EchoUntilZero  == << 3, 11, 1006, 11, 10, 4, 11, 1105, 1, 0, 99, 0 >>
\* ReadInput whose destination is Immediate
ReadImmediate  == << 103, 0, 99 >>
\* Add whose destination is Immediate
AddImmediate   == << 104, 1, 11101, 1, 1, 0, 99 >>
\* runs past its last cell
RunsOff        == << 1101, 1, 1, 0 >>
\* mode digit 3 on the third parameter
BadMode        == << 104, 7, 31002, 0, 0, 0, 99 >>
\* writes to pages 3 and 1
FarWrite       == << 1101, 20, 22, 1000, 4, 1000, 21101, 1, 2, 300, 99 >>
\* overwrites its own opcode cell with 99
SelfModify     == << 1101, 95, 4, 0, 99 >>
\* instructions after the Terminate
AfterHalt      == << 99, 104, 5, 3, 0, 99 >>
\* relative_base := 10, then -4 more (Relative), then 3 more (Position)
RelativeWalk   == << 109, 10, 209, 0, 9, 11, 204, -1, 99, 0, -4, 3 >>
\* read a, write (3 < a) and ((3 < a) = 1)
Compare        == << 3, 15, 107, 3, 15, 16, 1008, 16, 1, 17, 4, 16, 4, 17, 99,
                     0, 0, 0 >>

Programs ==
    << TestAdd, TestMul, TestNontrivial, TestJumpIfTrue, EchoSum, Spin,
       RelativeEcho, EchoUntilZero, ReadImmediate, AddImmediate, RunsOff,
       BadMode, FarWrite, SelfModify, AfterHalt, RelativeWalk, Compare >>

\* All sequences over S of length at most n.
RECURSIVE SeqsUpTo(_, _)
SeqsUpTo(S, n) ==
    IF n = 0 THEN { << >> }
    ELSE LET shorter == SeqsUpTo(S, n - 1)
         IN  shorter \cup { Append(q, v) : q \in shorter, v \in S }

\* ------------------------------------------------------------------ state

VARIABLES
    \* the fields of the ProgramState the host drives
    mem, inputs, outputs, program_counter, relative_base, terminated,
    \* where the host is: "idle" (between calls), inside the loop of
    \* "run_to_next_input" or "run_to_completion", or "panicked"
    host,
    \* what the last progress_state gave: "None", "Ok", "NoInput" or the panic
    result,
    \* the host operation that completed last
    last,
    \* history: the index of the loaded image, every input supplied so far,
    \* and the suspension the instance is in since run_to_next_input broke
    image, pushed, awaiting, suspended_once,
    \* a PagedMemory on its own is exercised through mem; history: the last
    \* value written to each address written, and what the last read gave
    written, got,
    \* the Instruction the last fetch_and_decode gave
    decoded,
    \* cloned instances: the heap objects (page maps and queues) they own,
    \* and the instances
    heap, amps,
    \* history: the ProgramState as it was before the last single step
    before,
    \* the Vec an arithmetic program is loaded from, and how running it ended
    program, final,
    \* the locals of test_phase_settings of day 7 and where it is
    ring

vmvars == << mem, inputs, outputs, program_counter, relative_base, terminated >>

vars == << mem, inputs, outputs, program_counter, relative_base, terminated,
           host, result, last, image, pushed, awaiting, suspended_once,
           written, got, decoded, heap, amps, before, program, final, ring >>

\* The variables only the specifications of the memory, the decoder, the
\* clones, the single step and the arithmetic programs use.
auxvars == << written, got, decoded, heap, amps, before, program, final, ring >>

\* The variables only the specifications of the single step and of the
\* arithmetic programs use.
stepvars == << before, program, final, ring >>

\* The variables that only record the host of the single instance.
hostvars == << host, result, last, image, pushed, awaiting, suspended_once >>

\* The ProgramState held in the variables.
Self ==
    [ mem             |-> mem,
      inputs          |-> inputs,
      outputs         |-> outputs,
      program_counter |-> program_counter,
      relative_base   |-> relative_base,
      terminated      |-> terminated ]

Install(state) ==
    /\ mem' = state.mem
    /\ inputs' = state.inputs
    /\ outputs' = state.outputs
    /\ program_counter' = state.program_counter
    /\ relative_base' = state.relative_base
    /\ terminated' = state.terminated

NotAwaiting == [status |-> "none", pc |-> 0, rb |-> 0]

\* The variables of the other specifications, at rest.
AuxIdle ==
    /\ written = << >>
    /\ got = 0
    /\ decoded = [panic |-> "None"]
    /\ heap = << >>
    /\ amps = << >>
    /\ before = << >>
    /\ program = << >>
    /\ final = << >>
    /\ ring = << >>

\* ProgramState::new(image, inputs)
Init ==
    /\ image \in 1..Len(Programs)
    /\ pushed \in SeqsUpTo(InputValues, MaxInputs)
    /\ LET state == ProgramStateNew(Programs[image], pushed)
       IN  /\ mem = state.mem
           /\ inputs = state.inputs
           /\ outputs = state.outputs
           /\ program_counter = state.program_counter
           /\ relative_base = state.relative_base
           /\ terminated = state.terminated
    /\ host = "idle"
    /\ result = "None"
    /\ last = "new"
    /\ awaiting = NotAwaiting
    /\ suspended_once = FALSE
    /\ AuxIdle

\* -------------------------------------------------------- host operations

\* inputs.push_back(v)
PushInput(v) ==
    /\ host = "idle"
    /\ Len(pushed) < MaxInputs
    /\ inputs' = Append(inputs, v)
    /\ pushed' = Append(pushed, v)
    /\ last' = "push_back"
    /\ awaiting' = IF awaiting.status = "suspended"
                   THEN [awaiting EXCEPT !.status = "resupplied"]
                   ELSE NotAwaiting
    /\ UNCHANGED << mem, outputs, program_counter, relative_base, terminated,
                    host, result, image, suspended_once >>
    /\ UNCHANGED auxvars

\* outputs.pop_front()
PopOutput ==
    /\ host = "idle"
    /\ outputs # << >>
    /\ outputs' = Tail(outputs)
    /\ last' = "pop_front"
    /\ UNCHANGED << mem, inputs, program_counter, relative_base, terminated,
                    host, result, image, pushed, awaiting, suspended_once >>
    /\ UNCHANGED auxvars

\* One call of progress_state by the host.
ProgressState ==
    /\ host = "idle"
    /\ LET out == progress_state(Self)
       IN  /\ Install(out.state)
           /\ result' = out.result
           /\ host' = IF IsPanic(out.result) THEN "panicked" ELSE "idle"
    /\ last' = "progress_state"
    /\ awaiting' = NotAwaiting
    /\ UNCHANGED << image, pushed, suspended_once >>
    /\ UNCHANGED auxvars

\* run_to_next_input is entered.
RunToNextInputCall ==
    /\ host = "idle"
    /\ host' = "run_to_next_input"
    /\ UNCHANGED << vmvars, result, last, image, pushed, awaiting, suspended_once >>
    /\ UNCHANGED auxvars

\* The loop of run_to_next_input as it would be with the two match arms
\* exchanged: Ok breaks, NoInput goes round again.
RunToNextInputIterateSwapped ==
    /\ host = "run_to_next_input"
    /\ ~terminated
    /\ LET out == progress_state(Self)
       IN  /\ Install(out.state)
           /\ result' = out.result
           /\ host' = CASE out.result = "Ok"      -> "idle"
                        [] out.result = "NoInput" -> "run_to_next_input"
                        [] OTHER                  -> "panicked"
           /\ last' = IF out.result = "Ok" THEN "run_to_next_input" ELSE last
           /\ awaiting' = NotAwaiting
           /\ suspended_once' = (suspended_once \/ out.result = "NoInput")
    /\ UNCHANGED << image, pushed >>
    /\ UNCHANGED auxvars

\* The loop of run_to_next_input as it would be if NoInput were unwrapped
\* the way run_to_completion does instead of ending the loop.
RunToNextInputIterateStrict ==
    /\ host = "run_to_next_input"
    /\ ~terminated
    /\ LET out == progress_state(Self)
       IN  /\ Install(out.state)
           /\ result' = out.result
           /\ host' = IF out.result = "Ok" THEN "run_to_next_input" ELSE "panicked"
           /\ last' = last
           /\ awaiting' = NotAwaiting
           /\ suspended_once' = (suspended_once \/ out.result = "NoInput")
    /\ UNCHANGED << image, pushed >>
    /\ UNCHANGED auxvars

\* The loop of run_to_next_input as it would be with a step limit of one:
\* it returns after the first step that succeeds.
RunToNextInputIterateOnce ==
    /\ host = "run_to_next_input"
    /\ ~terminated
    /\ LET out == progress_state(Self)
       IN  /\ Install(out.state)
           /\ result' = out.result
           /\ host' = IF IsPanic(out.result) THEN "panicked" ELSE "idle"
           /\ last' = "run_to_next_input"
           /\ awaiting' = IF out.result = "NoInput"
                          THEN [status |-> "suspended",
                                pc     |-> program_counter,
                                rb     |-> relative_base]
                          ELSE NotAwaiting
           /\ suspended_once' = (suspended_once \/ out.result = "NoInput")
    /\ UNCHANGED << image, pushed >>
    /\ UNCHANGED auxvars

\* One iteration of `while !self.terminated { match self.progress_state() .. }`.
RunToNextInputIterate ==
    /\ host = "run_to_next_input"
    /\ ~terminated
    /\ LET out == progress_state(Self)
       IN  /\ Install(out.state)
           /\ result' = out.result
           /\ host' = CASE out.result = "Ok"      -> "run_to_next_input"
                        [] out.result = "NoInput" -> "idle"
                        [] OTHER                  -> "panicked"
           /\ last' = IF out.result = "NoInput" THEN "run_to_next_input" ELSE last
           /\ awaiting' = IF out.result = "NoInput"
                          THEN [status |-> "suspended",
                                pc     |-> program_counter,
                                rb     |-> relative_base]
                          ELSE NotAwaiting
           /\ suspended_once' = (suspended_once \/ out.result = "NoInput")
    /\ UNCHANGED << image, pushed >>
    /\ UNCHANGED auxvars

\* The loop condition is false: run_to_next_input returns.
RunToNextInputReturn ==
    /\ host = "run_to_next_input"
    /\ terminated
    /\ host' = "idle"
    /\ last' = "run_to_next_input"
    /\ awaiting' = NotAwaiting
    /\ UNCHANGED << vmvars, result, image, pushed, suspended_once >>
    /\ UNCHANGED auxvars

\* run_to_completion is entered.
RunToCompletionCall ==
    /\ host = "idle"
    /\ host' = "run_to_completion"
    /\ awaiting' = NotAwaiting
    /\ UNCHANGED << vmvars, result, last, image, pushed, suspended_once >>
    /\ UNCHANGED auxvars

\* The loop of run_to_completion as it would be if it broke on NoInput the
\* way run_to_next_input does.
RunToCompletionIterateLenient ==
    /\ host = "run_to_completion"
    /\ ~terminated
    /\ LET out == progress_state(Self)
       IN  /\ Install(out.state)
           /\ result' = out.result
           /\ host' = CASE out.result = "Ok"      -> "run_to_completion"
                        [] out.result = "NoInput" -> "idle"
                        [] OTHER                  -> "panicked"
    /\ UNCHANGED << last, image, pushed, awaiting, suspended_once >>
    /\ UNCHANGED auxvars

\* One iteration of `while !self.terminated { self.progress_state().expect(..) }`.
RunToCompletionIterate ==
    /\ host = "run_to_completion"
    /\ ~terminated
    /\ LET out == progress_state(Self)
       IN  /\ Install(out.state)
           /\ result' = out.result
           /\ host' = IF out.result = "Ok" THEN "run_to_completion" ELSE "panicked"
    /\ UNCHANGED << last, image, pushed, awaiting, suspended_once >>
    /\ UNCHANGED auxvars

\* The loop condition is false: run_to_completion returns.
RunToCompletionReturn ==
    /\ host = "run_to_completion"
    /\ terminated
    /\ host' = "idle"
    /\ last' = "run_to_completion"
    /\ UNCHANGED << vmvars, result, image, pushed, awaiting, suspended_once >>
    /\ UNCHANGED auxvars

Next ==
    \/ \E v \in InputValues : PushInput(v)
    \/ PopOutput
    \/ ProgressState
    \/ RunToNextInputCall
    \/ RunToNextInputIterate
    \/ RunToNextInputReturn
    \/ RunToCompletionCall
    \/ RunToCompletionIterate
    \/ RunToCompletionReturn

Spec == Init /\ [][Next]_vars

\* ------------------------------------------------------------ the claims

\* The opcode of the instruction at program_counter, "None" when the word
\* there does not decode.
OpcodeAt(state) ==
    LET instr == fetch_and_decode(state)
    IN  IF Decoded(instr) THEN instr.opcode ELSE "None"

\* A step of the interpreter was taken: progress_state called by the host or
\* by one of the two run loops.
StepTaken == ProgressState \/ RunToNextInputIterate \/ RunToCompletionIterate

\* C1: a step whose instruction at program_counter is ReadInput while the
\* input queue is empty gives NoInput and leaves memory, program_counter,
\* relative_base, both queues and the terminated flag as they were.
C1_BlockedReadInput ==
    [][ (StepTaken /\ OpcodeAt(Self) = "ReadInput" /\ inputs = << >>)
            => (result' = "NoInput" /\ UNCHANGED vmvars) ]_vars

\* A blocked ReadInput was stepped by the host after the program had already
\* produced output.
C1_Witness ==
    /\ last = "progress_state"
    /\ result = "NoInput"
    /\ OpcodeAt(Self) = "ReadInput"
    /\ inputs = << >>
    /\ outputs # << >>

\* The destination parameter of the ReadInput at program_counter.
ReadInputDst == fetch_and_decode(Self).parameters[1]

\* The resumed ReadInput completed: the front value v is in the destination
\* cell and off the queue, and execution goes on two cells further.
Resumed ==
    /\ OpcodeAt(Self) = "ReadInput"
    /\ program_counter = awaiting.pc
    /\ relative_base = awaiting.rb
    /\ inputs # << >>
    /\ result' = "Ok"
    /\ host' = "run_to_next_input"
    /\ ReadInputDst.mode # "Immediate"
    /\ read_addr(mem', WriteTarget(ReadInputDst, Self)) = Head(inputs)
    /\ inputs' = Tail(inputs)
    /\ program_counter' = awaiting.pc + 2
    /\ relative_base' = awaiting.rb

\* The first iteration of a run_to_next_input called after the instance was
\* suspended by run_to_next_input and exactly one value was pushed.
FirstIterationAfterResupply ==
    RunToNextInputIterate /\ awaiting.status = "resupplied"

\* C2 as stated: after a suspension, one push and a second run_to_next_input,
\* the same ReadInput runs first, writes v to its destination, removes v from
\* the queue and goes on at its address plus 2 with relative_base unchanged.
C2_ResumeAlwaysWrites ==
    [][ FirstIterationAfterResupply => Resumed ]_vars

\* C2 as amended: so it is when the destination of the ReadInput is in
\* Position or Relative mode; with an Immediate destination the same ReadInput
\* still runs first and removes v, and the step is the fatal write fault,
\* memory, program_counter and relative_base being left as they were.
C2_Resume ==
    [][ FirstIterationAfterResupply =>
            IF ReadInputDst.mode # "Immediate"
            THEN Resumed
            ELSE /\ program_counter = awaiting.pc
                 /\ relative_base = awaiting.rb
                 /\ inputs' = Tail(inputs)
                 /\ result' = "PanicImmediateWrite"
                 /\ host' = "panicked"
                 /\ UNCHANGED << mem, outputs, program_counter, relative_base,
                                 terminated >> ]_vars

\* A suspended instance was given one value and has gone on past the resumed
\* ReadInput, whose destination cell holds the value.
C2_Witness ==
    /\ host = "run_to_next_input"
    /\ suspended_once
    /\ result = "Ok"
    /\ Len(pushed) = 1
    /\ inputs = << >>
    /\ image = 5
    /\ program_counter = 2
    /\ read_addr(mem, 13) = pushed[1]

\* ------------------------------------------------- C3: batches of inputs

\* Most steps the reference run below is followed for.
MaxFuel == 40

\* run_to_completion as one computation: the loop
\* `while !terminated { progress_state().expect(..) }` followed for at most
\* fuel steps.  result is "Returned", "OutOfFuel" or the panic ("NoInput" is
\* the panic of expect).
RECURSIVE RunToCompletionFrom(_, _)
RunToCompletionFrom(state, fuel) ==
    IF state.terminated THEN [state |-> state, result |-> "Returned"]
    ELSE IF fuel = 0 THEN [state |-> state, result |-> "OutOfFuel"]
    ELSE LET out == progress_state(state)
         IN  IF out.result = "Ok"
             THEN RunToCompletionFrom(out.state, fuel - 1)
             ELSE out

\* The host of the batch schedules: it only pushes inputs and calls
\* run_to_next_input.
NextSchedule ==
    \/ \E v \in InputValues : PushInput(v)
    \/ RunToNextInputCall
    \/ RunToNextInputIterate
    \/ RunToNextInputReturn

SpecSchedule == Init /\ [][NextSchedule]_vars

\* The single run_to_completion of the loaded image with every input supplied
\* so far pre-loaded.
Reference ==
    RunToCompletionFrom(ProgramStateNew(Programs[image], pushed), MaxFuel)

\* C3: whenever run_to_completion with the inputs pre-loaded terminates, a
\* schedule that supplied the same inputs in batches, with run_to_next_input
\* after each batch, has terminated when its last run_to_next_input returns,
\* with the same output queue.
C3_BatchesEquivalent ==
    (host = "idle" /\ last = "run_to_next_input" /\ Reference.result = "Returned")
        => (terminated /\ outputs = Reference.state.outputs)

\* A schedule that was suspended for lack of input at least once has
\* terminated, two inputs supplied and outputs produced.
C3_Witness ==
    /\ host = "idle"
    /\ last = "run_to_next_input"
    /\ suspended_once
    /\ terminated
    /\ Len(pushed) = 2
    /\ Len(outputs) = 2
    /\ Reference.result = "Returned"

\* ------------------------------------------------------ C4, C5, C6, C9

\* C4: inside run_to_completion, a ReadInput met with an empty input queue
\* is fatal: the only step the loop can take from there is the panic of
\* expect on NoInput, and that step can be taken, so the call neither
\* returns nor retries.
C4_RunToCompletionNoInputFatal ==
    /\ [](  (host = "run_to_completion" /\ ~terminated
                /\ OpcodeAt(Self) = "ReadInput" /\ inputs = << >>)
            => (ENABLED RunToCompletionIterate /\ ~ENABLED RunToCompletionReturn) )
    /\ [][ (host = "run_to_completion" /\ ~terminated
                /\ OpcodeAt(Self) = "ReadInput" /\ inputs = << >>)
            => (host' = "panicked" /\ result' = "NoInput" /\ UNCHANGED vmvars) ]_vars

\* run_to_completion panicked on NoInput after the program had consumed an
\* input and produced output.
C4_Witness ==
    /\ host = "panicked"
    /\ result = "NoInput"
    /\ pushed # << >>
    /\ inputs = << >>
    /\ outputs # << >>

\* An operation of the interpreter: a step, or a call, iteration or return of
\* a run loop.
InterpreterOperation ==
    \/ StepTaken
    \/ RunToNextInputCall \/ RunToNextInputReturn
    \/ RunToCompletionCall \/ RunToCompletionReturn

\* C5: once terminated is true no interpreter operation (progress_state,
\* run_to_next_input, run_to_completion) changes memory, program_counter,
\* relative_base or the queues.
C5_TerminatedInert ==
    [][ (terminated /\ InterpreterOperation)
            => UNCHANGED << mem, program_counter, relative_base, inputs, outputs >> ]_vars

\* C6: terminated is false in a new ProgramState, becomes true only by a step
\* that executes a Terminate, and is never set back to false by a step or a
\* run operation.
C6_TerminatedMonotone ==
    /\ ~terminated
    /\ [][ (terminated' # terminated)
              => (~terminated /\ terminated' /\ StepTaken
                    /\ OpcodeAt(Self) = "Terminate"
                    /\ result' = "Ok") ]_vars
    /\ [][ (terminated /\ InterpreterOperation) => terminated' ]_vars

\* Steps were taken on a terminated instance, and it is still terminated.
C6_Witness ==
    /\ terminated
    /\ last = "progress_state"
    /\ program_counter > 1
    /\ outputs # << >>
    /\ image = 15

\* C9: when run_to_next_input returns, terminated is true, or the instruction
\* at program_counter is a ReadInput and the input queue is empty.
C9_ReturnsOnlySuspendedOrTerminated ==
    (host = "idle" /\ last = "run_to_next_input")
        => \/ terminated
           \/ (OpcodeAt(Self) = "ReadInput" /\ inputs = << >> /\ result = "NoInput")

\* run_to_next_input returned on a ReadInput with an empty queue after
\* consuming the inputs it had.
C9_Witness ==
    /\ host = "idle"
    /\ last = "run_to_next_input"
    /\ ~terminated
    /\ OpcodeAt(Self) = "ReadInput"
    /\ inputs = << >>
    /\ pushed # << >>
    /\ program_counter > 0

\* ------------------------------------------------- C8: the paged memory

\* The addresses written: two in page 0, one in page 1, two in page 4, and a
\* very large one.
WriteAddrs == {0, 255, 256, 1234, 1235, 10000000}

\* The addresses read: those written and never-written ones in the same
\* pages, in other pages, and at the top of the address space.
ReadAddrs == WriteAddrs \cup {1, 257, 1233, 9999999, 10000001, UsizeModulus - 1}

MemValues == {0, 42, -7}

\* The memories the writes and reads start from: 0 for PagedMemory::new(),
\* nothing written, or the index of an image loaded by load_program_file.
MemImages == {0, 4}

\* The cells the From loop writes for an image.
ImageCells(source) == [a \in 0..(Len(source) - 1) |-> source[a + 1]]

\* PagedMemory::new() on its own, or the memory of a loaded image.
InitMem ==
    /\ image \in MemImages
    /\ mem = IF image = 0 THEN PagedMemoryNew ELSE PagedMemoryFrom(Programs[image])
    /\ written = IF image = 0 THEN << >> ELSE ImageCells(Programs[image])
    /\ got = 0
    /\ inputs = << >> /\ outputs = << >>
    /\ program_counter = 0 /\ relative_base = 0 /\ terminated = FALSE
    /\ host = "idle" /\ result = "None" /\ last = "new"
    /\ pushed = << >>
    /\ awaiting = NotAwaiting /\ suspended_once = FALSE
    /\ decoded = [panic |-> "None"]
    /\ heap = << >> /\ amps = << >>
    /\ before = << >> /\ program = << >> /\ final = << >>
    /\ ring = << >>

\* mem.write_addr(addr, value)
WriteAddr(addr, value) ==
    /\ mem' = write_addr(mem, addr, value)
    /\ written' = [a \in (DOMAIN written) \cup {addr} |->
                      IF a = addr THEN value ELSE written[a]]
    /\ UNCHANGED << got, inputs, outputs, program_counter, relative_base,
                    terminated, hostvars, decoded, heap, amps, stepvars >>

\* mem.read_addr(addr)
ReadAddr(addr) ==
    /\ LET effect == ReadAddrEffect(mem, addr)
       IN  /\ mem' = effect.pages
           /\ got' = effect.value
    /\ UNCHANGED << written, inputs, outputs, program_counter,
                    relative_base, terminated, hostvars, decoded, heap, amps, stepvars >>

\* Game::new of day 13: the loaded image is patched, address 0 forced to 2.
PatchAddr == 0
PatchValue == 2

Day13Patch ==
    /\ image # 0
    /\ WriteAddr(PatchAddr, PatchValue)

\* The addresses written in a loaded image: in its page, and the first of
\* the next page.
LoadedWriteAddrs == {0, 255, 256}

NextMem ==
    \/ \E addr \in IF image = 0 THEN WriteAddrs ELSE LoadedWriteAddrs,
          value \in MemValues : WriteAddr(addr, value)
    \/ Day13Patch
    \/ \E addr \in ReadAddrs : ReadAddr(addr)

SpecMem == InitMem /\ [][NextMem]_vars

\* C8: after any sequence of writes, read_addr(a) is the value of the most
\* recent write to a, and zero for every address never written, whether or
\* not it shares a page with a written address, however large it is.
C8_ReadAfterWrite ==
    \A a \in ReadAddrs :
        read_addr(mem, a) = IF a \in DOMAIN written THEN written[a] ELSE 0

\* Two addresses of one page and the very large address were written with
\* different non-zero values, a third address of that page was not, and the
\* last read gave a written value.
C8_Witness ==
    /\ {1234, 10000000, 0} \subseteq DOMAIN written
    /\ 1235 \notin DOMAIN written
    /\ written[1234] = 42
    /\ written[10000000] = -7
    /\ written[0] = 42
    /\ got = -7

\* ------------------------------------------------------ C10: the decoder

\* The mode digits of the instruction words decoded run over 0..MaxModeWord:
\* every combination of the three parameter modes, and digits outside
\* {0,1,2} in each place.
MaxModeWord == 322

\* The two-digit opcode fields of the instruction words decoded.
OpcodeFields == {1, 2, 3, 4, 5, 6, 7, 8, 9, 99, 0, 10, 98}

\* The addresses the decoded instruction is put at: the start of memory, and
\* the end of page 0 with the operands in page 1.
DecodeAddrs == {0, 254}

\* The operands stored after the instruction word.
DecodeOperands == << 11, -12, 13 >>

\* A ProgramState with the instruction word w at program_counter = pc0.
InitDecode ==
    /\ \E w \in { f + 100 * m : f \in OpcodeFields, m \in 0..MaxModeWord },
          pc0 \in DecodeAddrs :
          /\ mem = write_addr(
                       write_addr(
                         write_addr(
                           write_addr(PagedMemoryNew, pc0, w),
                           pc0 + 1, DecodeOperands[1]),
                         pc0 + 2, DecodeOperands[2]),
                       pc0 + 3, DecodeOperands[3])
          /\ program_counter = pc0
    /\ inputs = << >> /\ outputs = << >>
    /\ relative_base = 0 /\ terminated = FALSE
    /\ host = "idle" /\ result = "None" /\ last = "new"
    /\ image = 0 /\ pushed = << >>
    /\ awaiting = NotAwaiting /\ suspended_once = FALSE
    /\ written = << >> /\ got = 0
    /\ decoded = [panic |-> "None"]
    /\ heap = << >> /\ amps = << >>
    /\ before = << >> /\ program = << >> /\ final = << >>
    /\ ring = << >>

\* Instruction::fetch_and_decode(self)
FetchAndDecode ==
    /\ last = "new"
    /\ decoded' = fetch_and_decode(Self)
    /\ last' = "fetch_and_decode"
    /\ UNCHANGED << vmvars, host, result, image, pushed, awaiting,
                    suspended_once, written, got, heap, amps, stepvars >>

NextDecode == FetchAndDecode

SpecDecode == InitDecode /\ [][NextDecode]_vars

\* The instruction set as the specification tables it: opcode number, name,
\* number of parameters.
InstructionSet ==
    { << 1, "Add", 3 >>, << 2, "Multiply", 3 >>, << 3, "ReadInput", 1 >>,
      << 4, "WriteOutput", 1 >>, << 5, "JumpIfTrue", 2 >>,
      << 6, "JumpIfFalse", 2 >>, << 7, "LessThan", 3 >>, << 8, "Equals", 3 >>,
      << 9, "AdjustRelativeBase", 1 >>, << 99, "Terminate", 0 >> }

ModeNames == << "Position", "Immediate", "Relative" >>

\* The i-th least significant decimal digit of n (i from 1), n >= 0.
DecimalDigit(n, i) == (n \div (10 ^ (i - 1))) % 10

\* C10: decoding the word w at program_counter gives the opcode selected by
\* w modulo 100, and for an opcode with N parameters gives parameter i the
\* mode named by the i-th least significant digit of w div 100 and the
\* operand stored at program_counter + i.
C10_Decode ==
    LET w == read_addr(mem, program_counter)
    IN  (last = "fetch_and_decode" /\ w >= 0) =>
          \A ins \in InstructionSet :
            ( /\ w % 100 = ins[1]
              /\ \A i \in 1..ins[3] : DecimalDigit(w \div 100, i) \in {0, 1, 2} )
            => /\ Decoded(decoded)
               /\ decoded.opcode = ins[2]
               /\ Len(decoded.parameters) = ins[3]
               /\ \A i \in 1..ins[3] :
                     /\ decoded.parameters[i].mode =
                            ModeNames[DecimalDigit(w \div 100, i) + 1]
                     /\ decoded.parameters[i].contents =
                            read_addr(mem, program_counter + i)

\* An Add at the end of page 0 was decoded with all three modes different and
\* its operands fetched from page 1.
C10_Witness ==
    /\ last = "fetch_and_decode"
    /\ program_counter = 254
    /\ read_addr(mem, 254) = 21001
    /\ Decoded(decoded)
    /\ decoded.opcode = "Add"
    /\ decoded.parameters[1].mode = "Position"
    /\ decoded.parameters[2].mode = "Immediate"
    /\ decoded.parameters[3] = [mode |-> "Relative", contents |-> 13]

\* ------------------------------------------------------- C7: the clones

\* Most instances alive at once: the loaded image and its clones.
MaxInstances == 2

\* Most inputs pushed to the instances altogether.
MaxCloneInputs == 2

\* The values pushed to the instances.
CloneInputValues == {4, -1}

\* The images cloned: EchoSum, RelativeEcho.
CloneImages == {5, 7}

\* A ProgramState owns three heap objects: the page map of its PagedMemory
\* and the buffers of its two VecDeques.  heap is the sequence of the objects
\* allocated so far; an instance holds the indices of its three objects and
\* its scalar fields (and, as history, how many inputs the host pushed to it).

\* The ProgramState an instance denotes in a heap.
Load(h, inst) ==
    [ mem             |-> h[inst.mem],
      inputs          |-> h[inst.inputs],
      outputs         |-> h[inst.outputs],
      program_counter |-> inst.program_counter,
      relative_base   |-> inst.relative_base,
      terminated      |-> inst.terminated ]

\* The heap after an operation on inst left it in `state`: the operation
\* mutates the objects the instance holds, in place.
StoreHeap(h, inst, state) ==
    [id \in DOMAIN h |->
        IF id = inst.outputs THEN state.outputs
        ELSE IF id = inst.inputs THEN state.inputs
        ELSE IF id = inst.mem THEN state.mem
        ELSE h[id]]

StoreInstance(inst, state) ==
    [inst EXCEPT !.program_counter = state.program_counter,
                 !.relative_base = state.relative_base,
                 !.terminated = state.terminated]

\* A clone that shares the page map of the original instead of copying it.
CloneShallow(h, inst) ==
    [ heap |-> h \o << h[inst.inputs], h[inst.outputs] >>,
      inst |-> [inst EXCEPT !.inputs = Len(h) + 1, !.outputs = Len(h) + 2] ]

\* #[derive(Clone)] of ProgramState and of PagedMemory: every field is
\* cloned, the page map and the two queues into newly allocated objects.
Clone(h, inst) ==
    [ heap |-> h \o << h[inst.mem], h[inst.inputs], h[inst.outputs] >>,
      inst |-> [inst EXCEPT !.mem = Len(h) + 1,
                            !.inputs = Len(h) + 2,
                            !.outputs = Len(h) + 3] ]

\* run_to_next_input as one computation, followed for at most fuel steps:
\* result is "Returned", "OutOfFuel" or the panic.
RECURSIVE RunToNextInputFrom(_, _)
RunToNextInputFrom(state, fuel) ==
    IF state.terminated THEN [state |-> state, result |-> "Returned"]
    ELSE IF fuel = 0 THEN [state |-> state, result |-> "OutOfFuel"]
    ELSE LET out == progress_state(state)
         IN  CASE out.result = "Ok"      -> RunToNextInputFrom(out.state, fuel - 1)
               [] out.result = "NoInput" -> [state |-> out.state, result |-> "Returned"]
               [] OTHER                  -> out

\* load_program_file: one instance, its input queue empty.
InitClone ==
    /\ image \in CloneImages
    /\ LET state == ProgramStateNew(Programs[image], << >>)
       IN  /\ heap = << state.mem, state.inputs, state.outputs >>
           /\ amps = << [ mem |-> 1, inputs |-> 2, outputs |-> 3,
                          program_counter |-> state.program_counter,
                          relative_base   |-> state.relative_base,
                          terminated      |-> state.terminated,
                          supplied        |-> 0 ] >>
    /\ host = "idle" /\ result = "None" /\ last = "new"
    /\ mem = PagedMemoryNew
    /\ inputs = << >> /\ outputs = << >>
    /\ program_counter = 0 /\ relative_base = 0 /\ terminated = FALSE
    /\ pushed = << >>
    /\ awaiting = NotAwaiting /\ suspended_once = FALSE
    /\ written = << >> /\ got = 0
    /\ decoded = [panic |-> "None"]
    /\ before = << >> /\ program = << >> /\ final = << >>
    /\ ring = << >>

cloneframe == << vmvars, image, pushed, awaiting, suspended_once, written, got,
                 decoded, stepvars >>

\* The number of inputs pushed to the first n instances.
RECURSIVE SuppliedTo(_, _)
SuppliedTo(instances, n) ==
    IF n = 0 THEN 0 ELSE instances[n].supplied + SuppliedTo(instances, n - 1)

\* let mut amp = amps[k].clone(); amps.push(amp)
CloneOf(k) ==
    /\ host = "idle"
    /\ Len(amps) < MaxInstances
    /\ LET c == Clone(heap, amps[k])
       IN  /\ heap' = c.heap
           /\ amps' = Append(amps, c.inst)
    /\ UNCHANGED << host, result, last, cloneframe >>

\* amps[k].inputs.push_back(v)
PushTo(k, v) ==
    /\ host = "idle"
    /\ SuppliedTo(amps, Len(amps)) < MaxCloneInputs
    /\ heap' = [heap EXCEPT ![amps[k].inputs] = Append(@, v)]
    /\ amps' = [amps EXCEPT ![k].supplied = @ + 1]
    /\ UNCHANGED << host, result, last, cloneframe >>

\* amps[k].progress_state()
StepOn(k) ==
    /\ host = "idle"
    /\ LET out == progress_state(Load(heap, amps[k]))
       IN  /\ heap' = StoreHeap(heap, amps[k], out.state)
           /\ amps' = [amps EXCEPT ![k] = StoreInstance(@, out.state)]
           /\ result' = out.result
           /\ host' = IF IsPanic(out.result) THEN "panicked" ELSE "idle"
    /\ UNCHANGED << last, cloneframe >>

\* amps[k].run_to_next_input()
RunOn(k) ==
    /\ host = "idle"
    /\ LET out == RunToNextInputFrom(Load(heap, amps[k]), MaxFuel)
       IN  /\ out.result # "OutOfFuel"
           /\ heap' = StoreHeap(heap, amps[k], out.state)
           /\ amps' = [amps EXCEPT ![k] = StoreInstance(@, out.state)]
           /\ result' = out.result
           /\ host' = IF out.result = "Returned" THEN "idle" ELSE "panicked"
    /\ UNCHANGED << last, cloneframe >>

NextClone ==
    \/ \E k \in 1..Len(amps) : CloneOf(k)
    \/ \E k \in 1..Len(amps), v \in CloneInputValues : PushTo(k, v)
    \/ \E k \in 1..Len(amps) : StepOn(k)
    \/ \E k \in 1..Len(amps) : RunOn(k)

SpecClone == InitClone /\ [][NextClone]_vars

\* An operation applied to instance k: a push, a step or a run.
OperationOn(k) ==
    \/ \E v \in CloneInputValues : PushTo(k, v)
    \/ StepOn(k)
    \/ RunOn(k)

\* The state instance j denotes is the same before and after the step.
Untouched(j) == Load(heap', amps'[j]) = Load(heap, amps[j])

\* C7: an input push, a step or a run applied to one instance leaves memory,
\* program_counter, relative_base, both queues and the terminated flag of
\* every other instance unchanged, and cloning an instance changes none.
C7_ClonesIsolated ==
    [][ /\ \A j \in 1..Len(amps) :
              Untouched(j) \/ \A k \in 1..Len(amps) : (k # j) => ~OperationOn(k)
        /\ (Len(amps') > Len(amps)) =>
              /\ \A j \in 1..Len(amps) : Untouched(j)
              /\ \E k \in 1..Len(amps) :
                    Load(heap', amps'[Len(amps')]) = Load(heap, amps[k]) ]_vars

\* Two instances cloned from one image were each given a different input and
\* run: they hold different memories and different outputs.
C7_Witness ==
    /\ Len(amps) = 2
    /\ amps[1].supplied = 1
    /\ amps[2].supplied = 1
    /\ amps[1].program_counter > 0
    /\ amps[2].program_counter > 0
    /\ heap[amps[1].outputs] # << >>
    /\ heap[amps[2].outputs] # << >>
    /\ heap[amps[1].outputs] # heap[amps[2].outputs]
    /\ heap[amps[1].mem] # heap[amps[2].mem]

\* ------------------------------------------- the single instruction step

\* The mode digits of the instruction words stepped: the three modes and one
\* digit that is no mode.
ModeDigits == {0, 1, 2, 3}

\* The mode fields with n digits over ModeDigits.
RECURSIVE ModeWords(_)
ModeWords(n) ==
    IF n = 0 THEN {0}
    ELSE { d + 10 * m : d \in ModeDigits, m \in ModeWords(n - 1) }

\* The opcode numbers from_element recognizes.
OpcodeNumbers == {1, 2, 3, 4, 5, 6, 7, 8, 9, 99}

\* Words beside those: no opcode (0, 10, 98, 100), negative words, a mode
\* digit 9, and digits beyond the last parameter of the opcode.
ExtraWords ==
    {0, 10, 98, 100, -1, -3, -99, -101, -1099, 901, 304, 1199, 30005,
     30099, 1000001, 10003, 90104, 30304}

\* The instruction words stepped: every opcode with every mode field over
\* ModeDigits for its parameters, and ExtraWords.
StepWords ==
    UNION { { f + 100 * m :
                m \in ModeWords(OpCodeLength(OpCodeFromElement(f)) - 1) } :
            f \in OpcodeNumbers }
    \cup ExtraWords

\* The values of the three cells after the instruction word.  As addresses:
\* 0 is a data cell, 2 the cell of the instruction word, -1 (as usize) the
\* last cell of the address space; relative_base 3 moves them to cells 3, 5
\* and 2.
StepOperands == {0, 2, -1}

StepBases == {0, 3}

StepInputs == { << >>, << 7 >> }

\* A ProgramState about to execute the word w, stored at address 2 between
\* data cells.
InitStep ==
    /\ \E w \in StepWords, o1 \in StepOperands, o2 \in StepOperands,
          o3 \in StepOperands :
          mem = PagedMemoryFrom(<< 9, -4, w, o1, o2, o3, 7 >>)
    /\ program_counter = 2
    /\ relative_base \in StepBases
    /\ inputs \in StepInputs
    /\ outputs = << >>
    /\ terminated = FALSE
    /\ host = "idle" /\ result = "None" /\ last = "new"
    /\ image = 0 /\ pushed = << >>
    /\ awaiting = NotAwaiting /\ suspended_once = FALSE
    /\ written = << >> /\ got = 0
    /\ decoded = [panic |-> "None"]
    /\ heap = << >> /\ amps = << >>
    /\ before = << >> /\ program = << >> /\ final = << >>
    /\ ring = << >>

\* One progress_state, the state before it and the Instruction it decoded
\* being recorded.
Step ==
    /\ last = "new"
    /\ before' = Self
    /\ decoded' = fetch_and_decode(Self)
    /\ LET out == progress_state(Self)
       IN  /\ Install(out.state)
           /\ result' = out.result
           /\ host' = IF IsPanic(out.result) THEN "panicked" ELSE "idle"
    /\ last' = "progress_state"
    /\ UNCHANGED << image, pushed, awaiting, suspended_once, written, got,
                    heap, amps, program, final, ring >>

NextStep == Step

SpecStep == InitStep /\ [][NextStep]_vars

\* The instruction word the step found at program_counter.
SteppedWord == read_addr(before.mem, before.program_counter)

\* C11: a step is the fatal unrecognized-opcode fault whenever the word at
\* program_counter is negative or, modulo 100, is none of 1..9 and 99.
C11_UnrecognizedOpcode ==
    (last = "progress_state"
        /\ (SteppedWord < 0
              \/ (SteppedWord % 100) \notin { ins[1] : ins \in InstructionSet }))
    => (result = "PanicUnrecognizedOpcode" /\ host = "panicked")

\* The word -101, whose remainder modulo 100 is -1 in the code and would be
\* 99 by the mathematical modulo, was stepped and is an unrecognized opcode.
C11_Witness ==
    /\ last = "progress_state"
    /\ SteppedWord = -101
    /\ result = "PanicUnrecognizedOpcode"
    /\ Self = before

\* C12: a step on a word whose opcode is recognized and which has a mode
\* digit outside {0,1,2} for one of the opcode's N parameters is the fatal
\* unrecognized-mode fault, raised before anything is executed: the state
\* is as it was, also when the instruction would not have used the
\* parameter.
C12_UnrecognizedMode ==
    (last = "progress_state" /\ SteppedWord >= 0) =>
        \A ins \in InstructionSet :
            ( /\ SteppedWord % 100 = ins[1]
              /\ \E i \in 1..ins[3] :
                    DecimalDigit(SteppedWord \div 100, i) \notin {0, 1, 2} )
            => (result = "PanicUnrecognizedMode" /\ host = "panicked"
                    /\ Self = before)

\* A JumpIfTrue whose test is the literal 0, so that the jump would not be
\* taken, and whose target has the mode digit 3, was stepped.
C12_Witness ==
    /\ last = "progress_state"
    /\ SteppedWord = 3105
    /\ read_addr(before.mem, before.program_counter + 1) = 0
    /\ result = "PanicUnrecognizedMode"

\* The stepped instruction is an Add, Multiply, LessThan, Equals or ReadInput
\* whose destination parameter is in Immediate mode.
ImmediateDestination ==
    /\ Decoded(decoded)
    /\ \/ /\ decoded.opcode \in {"Add", "Multiply", "LessThan", "Equals"}
          /\ decoded.parameters[3].mode = "Immediate"
       \/ /\ decoded.opcode = "ReadInput"
          /\ decoded.parameters[1].mode = "Immediate"

\* C13 as stated: a step on an instruction with an Immediate destination is
\* always a fatal fault, never Ok and never NoInput, whatever the input
\* queue holds.
C13_ImmediateWriteAlwaysFatal ==
    (last = "progress_state" /\ ImmediateDestination)
    => (result \notin {"Ok", "NoInput"} /\ host = "panicked")

\* C13 as amended: so it is for Add, Multiply, LessThan and Equals, and for
\* ReadInput when the input queue is not empty; a ReadInput with an Immediate
\* destination met with an empty queue reports NoInput and changes nothing.
C13_ImmediateWrite ==
    (last = "progress_state" /\ ImmediateDestination)
    => IF decoded.opcode = "ReadInput" /\ before.inputs = << >>
       THEN result = "NoInput" /\ host = "idle" /\ Self = before
       ELSE result = "PanicImmediateWrite" /\ host = "panicked"

\* A ReadInput with an Immediate destination was stepped with a value in the
\* queue: the value is gone and the step is the fatal write fault.
C13_Witness ==
    /\ last = "progress_state"
    /\ ImmediateDestination
    /\ decoded.opcode = "ReadInput"
    /\ before.inputs = << 7 >>
    /\ inputs = << >>
    /\ result = "PanicImmediateWrite"

\* The stepped word is a ReadInput instruction: opcode field 3 and a mode
\* digit for its one parameter.
SteppedReadInput ==
    /\ SteppedWord >= 0
    /\ SteppedWord % 100 = 3
    /\ DecimalDigit(SteppedWord \div 100, 1) \in {0, 1, 2}

\* C14: a step reports NoInput exactly when the instruction at
\* program_counter is a ReadInput and the input queue is empty, the state
\* then being intact; every other step that is not Ok is one of the three
\* fatal faults, and no step is both.
C14_NoInputExactly ==
    (last = "progress_state") =>
        /\ (result = "NoInput") <=> (SteppedReadInput /\ before.inputs = << >>)
        /\ (result = "NoInput") => (host = "idle" /\ Self = before)
        /\ (result \notin {"Ok", "NoInput"}) =>
              /\ result \in {"PanicUnrecognizedOpcode", "PanicUnrecognizedMode",
                             "PanicImmediateWrite"}
              /\ host = "panicked"

\* A ReadInput with a Relative destination met an empty queue under a
\* non-zero relative_base.
C14_Witness ==
    /\ last = "progress_state"
    /\ SteppedWord = 203
    /\ before.relative_base = 3
    /\ before.inputs = << >>
    /\ result = "NoInput"
    /\ host = "idle"

\* A parameter with Relative mode replaced by Position mode at operand
\* relative_base + k.
AsPosition(p, state) ==
    IF p.mode = "Relative"
    THEN [mode |-> "Position", contents |-> state.relative_base + p.contents]
    ELSE p

\* The instruction with every Relative parameter so replaced.
PositionForm(instr, state) ==
    [instr EXCEPT !.parameters =
        [i \in DOMAIN instr.parameters |-> AsPosition(instr.parameters[i], state)]]

\* C15: executing an instruction in a state gives the same successor state
\* and result as executing, in that state, the instruction with each
\* Relative parameter of operand k replaced by a Position parameter of
\* operand relative_base + k.
C15_RelativeIsPositionPlusBase ==
    (last = "progress_state" /\ Decoded(decoded)) =>
        LET twin == execute(PositionForm(decoded, before), before)
        IN  twin.state = Self /\ twin.result = result

\* An Add read through a Relative parameter and wrote through a Relative
\* parameter under relative_base 3, changing the cell at 3 + 2.
C15_Witness ==
    /\ last = "progress_state"
    /\ Decoded(decoded)
    /\ decoded.opcode = "Add"
    /\ decoded.parameters[1] = [mode |-> "Relative", contents |-> -1]
    /\ decoded.parameters[3] = [mode |-> "Relative", contents |-> 2]
    /\ before.relative_base = 3
    /\ result = "Ok"
    /\ read_addr(mem, 5) # read_addr(before.mem, 5)
    /\ read_addr(mem, 2) = read_addr(before.mem, 2)

\* The value the one parameter of the AdjustRelativeBase at program_counter
\* resolves to.
AdjustBy == ParameterRead(fetch_and_decode(Self).parameters[1], Self)

\* C16: relative_base is 0 in a new ProgramState; it changes only in a step
\* that executes an AdjustRelativeBase, and that step adds the resolved value
\* of the parameter to it; every other step, a blocked ReadInput, a push of
\* an input and a pop of an output leave it as it was.
C16_RelativeBase ==
    /\ relative_base = 0
    /\ [][ (relative_base' # relative_base)
              => (StepTaken /\ OpcodeAt(Self) = "AdjustRelativeBase"
                    /\ result' = "Ok") ]_vars
    /\ [][ (StepTaken /\ OpcodeAt(Self) = "AdjustRelativeBase")
              => relative_base' = relative_base + AdjustBy ]_vars

\* relative_base went 10, 6, 9 through an Immediate, a Relative and a
\* Position parameter, and the output was then read below it.
C16_Witness ==
    /\ image = 16
    /\ relative_base = 9
    /\ outputs = << 99 >>
    /\ terminated

\* The lengths of the instructions, by opcode.
InstructionLength ==
    [ Add |-> 4, Multiply |-> 4, ReadInput |-> 2, WriteOutput |-> 2,
      JumpIfTrue |-> 3, JumpIfFalse |-> 3, LessThan |-> 4, Equals |-> 4,
      AdjustRelativeBase |-> 2, Terminate |-> 1 ]

\* The value parameter i of the stepped instruction resolved to before the
\* step.
Resolved(i) == ParameterRead(decoded.parameters[i], before)

\* The stepped instruction is a jump whose test says it is taken.
JumpTaken ==
    \/ decoded.opcode = "JumpIfTrue" /\ Resolved(1) # 0
    \/ decoded.opcode = "JumpIfFalse" /\ Resolved(1) = 0

\* C17: after a step that succeeded and was not a taken jump,
\* program_counter is what it was plus the length of the opcode decoded
\* before execution, also when the instruction overwrote its opcode cell.
C17_AdvanceByLength ==
    (last = "progress_state" /\ result = "Ok" /\ ~JumpTaken)
    => program_counter = before.program_counter + InstructionLength[decoded.opcode]

\* An Add wrote 4, a WriteOutput of length 2, over its own opcode cell and
\* advanced by 4.
C17_Witness ==
    /\ last = "progress_state"
    /\ result = "Ok"
    /\ decoded.opcode = "Add"
    /\ read_addr(before.mem, before.program_counter) = 1101
    /\ read_addr(mem, before.program_counter) = 4
    /\ program_counter = before.program_counter + 4

\* The stepped jump with the other of the two jump opcodes.
OtherJump ==
    [decoded EXCEPT !.opcode = IF @ = "JumpIfTrue" THEN "JumpIfFalse"
                                ELSE "JumpIfTrue"]

\* C18: JumpIfTrue sets program_counter to the resolved target (as an
\* address) exactly when the resolved test is not 0, JumpIfFalse exactly when
\* it is 0, and otherwise each adds 3; on the same state exactly one of the
\* two jumps; a taken jump to the address of the instruction leaves
\* program_counter as it was; memory, relative_base, both queues and the
\* terminated flag do not change.
C18_Jumps ==
    (last = "progress_state" /\ Decoded(decoded)
        /\ decoded.opcode \in {"JumpIfTrue", "JumpIfFalse"})
    => LET target  == AsUsize(Resolved(2))
           falling == before.program_counter + 3
           other   == execute(OtherJump, before)
       IN  /\ result = "Ok"
           /\ program_counter = IF JumpTaken THEN target ELSE falling
           /\ other.result = "Ok"
           /\ other.state.program_counter = IF JumpTaken THEN falling ELSE target
           /\ (JumpTaken /\ Resolved(2) = before.program_counter)
                 => program_counter = before.program_counter
           /\ Self = [before EXCEPT !.program_counter = program_counter]

\* A JumpIfTrue with a non-zero test jumped to its own address.
C18_Witness ==
    /\ last = "progress_state"
    /\ Decoded(decoded)
    /\ decoded.opcode = "JumpIfTrue"
    /\ Resolved(1) # 0
    /\ Resolved(2) = before.program_counter
    /\ program_counter = before.program_counter
    /\ result = "Ok"

\* The addresses of the cells of the pages allocated in a memory.
CellsOf(pages) ==
    { index * PAGE_SIZE + offset :
        index \in DOMAIN pages, offset \in 0..(PAGE_SIZE - 1) }

\* What Add, Multiply, LessThan and Equals compute from a and b.
Computes(opcode, a, b) ==
    CASE opcode = "Add"      -> a + b
      [] opcode = "Multiply" -> a * b
      [] opcode = "LessThan" -> IF a < b THEN 1 ELSE 0
      [] opcode = "Equals"   -> IF a = b THEN 1 ELSE 0

\* C19: after an Add, Multiply, LessThan or Equals that succeeded, the
\* destination cell holds a+b, a*b, (1 if a<b else 0) or (1 if a=b else 0),
\* a and b being the values the two parameters resolved to before the write;
\* every other cell is as it was, and so are both queues and relative_base.
C19_Arithmetic ==
    (last = "progress_state" /\ Decoded(decoded) /\ result = "Ok"
        /\ decoded.opcode \in {"Add", "Multiply", "LessThan", "Equals"})
    => LET dst == WriteTarget(decoded.parameters[3], before)
       IN  /\ \A addr \in CellsOf(mem) \cup CellsOf(before.mem) :
                 read_addr(mem, addr) =
                     IF addr = dst
                     THEN Computes(decoded.opcode, Resolved(1), Resolved(2))
                     ELSE read_addr(before.mem, addr)
           /\ inputs = before.inputs
           /\ outputs = before.outputs
           /\ relative_base = before.relative_base
           /\ terminated = before.terminated

\* An Add whose destination is the cell its first parameter is read from:
\* the cell holds the old value plus b.
C19_Witness ==
    /\ last = "progress_state"
    /\ Decoded(decoded)
    /\ decoded.opcode = "Add"
    /\ decoded.parameters[1] = [mode |-> "Position", contents |-> 0]
    /\ decoded.parameters[2] = [mode |-> "Immediate", contents |-> 2]
    /\ decoded.parameters[3] = [mode |-> "Position", contents |-> 0]
    /\ read_addr(before.mem, 0) = 9
    /\ read_addr(mem, 0) = 11
    /\ result = "Ok"

\* ------------------------------------- the interpreters of day_2 and day_5

\* Both keep memory in a Vec (here a sequence, element i of the Vec being
\* values[i + 1]); indexing the Vec outside 0 .. len-1 panics.
InVec(values, idx) == 0 <= idx /\ idx < Len(values)

\* day_2: ProgramState::new
Day2New(values) == [values |-> values, program_counter |-> 0]

Day2Panic(state, panic) == [state |-> state, result |-> panic]

\* day_2 progress_state as it would be with the operands read directly
\* (read_rel) instead of through the address they hold (read_rel_ptr).
Day2ProgressStateDirect(state) ==
    LET values == state.values
        pc     == state.program_counter
    IN  IF ~InVec(values, pc) THEN Day2Panic(state, "PanicIndex")
        ELSE IF values[pc + 1] = 99 THEN [state |-> state, result |-> "Ok"]
        ELSE IF values[pc + 1] \notin {1, 2}
        THEN Day2Panic(state, "PanicUnknownOpcode")
        ELSE IF ~InVec(values, pc + 3) THEN Day2Panic(state, "PanicIndex")
        ELSE LET a     == values[pc + 2]
                 b     == values[pc + 3]
                 c_idx == values[pc + 4]
             IN  IF ~InVec(values, c_idx) THEN Day2Panic(state, "PanicIndex")
                 ELSE [state |->
                          [values |->
                              [values EXCEPT ![c_idx + 1] =
                                  IF values[pc + 1] = 1 THEN a + b ELSE a * b],
                           program_counter |-> pc + 4],
                       result |-> "Ok"]

\* day_2: ProgramState::progress_state.  terminated() reads values[pc];
\* the match panics on a word other than 1 and 2; read_rel_ptr(1),
\* read_rel_ptr(2) and read_rel(3) index the Vec, and so does the write.
Day2ProgressState(state) ==
    LET values == state.values
        pc     == state.program_counter
    IN  IF ~InVec(values, pc) THEN Day2Panic(state, "PanicIndex")
        ELSE IF values[pc + 1] = 99 THEN [state |-> state, result |-> "Ok"]
        ELSE IF values[pc + 1] \notin {1, 2}
        THEN Day2Panic(state, "PanicUnknownOpcode")
        ELSE IF ~InVec(values, pc + 3) THEN Day2Panic(state, "PanicIndex")
        ELSE IF ~InVec(values, values[pc + 2]) \/ ~InVec(values, values[pc + 3])
        THEN Day2Panic(state, "PanicIndex")
        ELSE LET a     == values[values[pc + 2] + 1]
                 b     == values[values[pc + 3] + 1]
                 c_idx == values[pc + 4]
             IN  IF ~InVec(values, c_idx) THEN Day2Panic(state, "PanicIndex")
                 ELSE [state |->
                          [values |->
                              [values EXCEPT ![c_idx + 1] =
                                  IF values[pc + 1] = 1 THEN a + b ELSE a * b],
                           program_counter |-> pc + 4],
                       result |-> "Ok"]

\* day_2: terminated()
Day2Terminated(state) ==
    state.values[state.program_counter + 1] = 99

\* day_2: run_to_completion, followed for at most fuel steps.
RECURSIVE Day2RunToCompletion(_, _)
Day2RunToCompletion(state, fuel) ==
    IF ~InVec(state.values, state.program_counter)
    THEN Day2Panic(state, "PanicIndex")
    ELSE IF Day2Terminated(state) THEN [state |-> state, result |-> "Returned"]
    ELSE IF fuel = 0 THEN [state |-> state, result |-> "OutOfFuel"]
    ELSE LET out == Day2ProgressState(state)
         IN  IF out.result = "Ok" THEN Day2RunToCompletion(out.state, fuel - 1)
             ELSE out

\* day_5: ProgramState::new
Day5New(values) ==
    [values |-> values, program_counter |-> 0, terminated |-> FALSE]

\* day_5: impl From<u8> for ParameterMode
Day5ParameterModeFrom(code) ==
    CASE code = 0 -> "Position"
      [] code = 1 -> "Immediate"
      [] OTHER    -> "Unrecognized"

\* day_5: OpCode::from_element
Day5OpCodeFromElement(element) ==
    LET code == RustRem(element, 100)
    IN  CASE code = 1  -> "Add"
          [] code = 2  -> "Multiply"
          [] code = 99 -> "Terminate"
          [] OTHER     -> "Unrecognized"

\* day_5: OpCode::length
Day5OpCodeLength(opcode) ==
    CASE opcode = "Add"       -> 4
      [] opcode = "Multiply"  -> 4
      [] opcode = "Terminate" -> 1

\* day_5: the loop of fetch_and_decode.  The mode is converted before the
\* operand is indexed; a parameter with a mode and no cell in the Vec is
\* given the mode "OutOfBounds".
RECURSIVE Day5DecodeParameters(_, _, _, _)
Day5DecodeParameters(state, parameter_modes, i, length) ==
    IF i >= length THEN << >>
    ELSE LET mode == Day5ParameterModeFrom(AsU8(RustRem(parameter_modes, 10)))
             at   == state.program_counter + i
         IN  << IF mode = "Unrecognized" \/ InVec(state.values, at)
                THEN [mode     |-> mode,
                      contents |-> IF InVec(state.values, at)
                                   THEN state.values[at + 1] ELSE 0]
                ELSE [mode |-> "OutOfBounds", contents |-> 0] >>
             \o Day5DecodeParameters(state, RustDiv(parameter_modes, 10),
                                     i + 1, length)

\* day_5: Instruction::fetch_and_decode
Day5FetchAndDecode(state) ==
    IF ~InVec(state.values, state.program_counter)
    THEN [panic |-> "PanicIndex"]
    ELSE LET raw_instr == state.values[state.program_counter + 1]
             opcode    == Day5OpCodeFromElement(raw_instr)
         IN  IF opcode = "Unrecognized"
             THEN [panic |-> "PanicUnrecognizedOpcode"]
             ELSE LET parameters ==
                          Day5DecodeParameters(state, RustDiv(raw_instr, 100), 1,
                                               Day5OpCodeLength(opcode))
                      bad == { k \in 1..Len(parameters) :
                                 parameters[k].mode
                                     \in {"Unrecognized", "OutOfBounds"} }
                  IN  IF bad = {}
                      THEN [opcode |-> opcode, parameters |-> parameters]
                      ELSE LET first == CHOOSE k \in bad :
                                            \A j \in bad : k <= j
                           IN  IF parameters[first].mode = "Unrecognized"
                               THEN [panic |-> "PanicUnrecognizedMode"]
                               ELSE [panic |-> "PanicIndex"]

\* day_5: Parameter::read can be evaluated (the index is inside the Vec).
Day5Readable(p, state) ==
    p.mode = "Immediate" \/ InVec(state.values, AsUsize(p.contents))

\* day_5: Parameter::read
Day5ParameterRead(p, state) ==
    IF p.mode = "Immediate" THEN p.contents
    ELSE state.values[AsUsize(p.contents) + 1]

\* day_5: Parameter::write
Day5ParameterWrite(p, state, value) ==
    IF p.mode = "Immediate"
    THEN [state |-> state, result |-> "PanicImmediateWrite"]
    ELSE IF ~InVec(state.values, AsUsize(p.contents))
    THEN [state |-> state, result |-> "PanicIndex"]
    ELSE [state  |-> [state EXCEPT !.values[AsUsize(p.contents) + 1] = value],
          result |-> "Ok"]

\* day_5: Instruction::execute
Day5Execute(instr, state) ==
    IF instr.opcode = "Terminate"
    THEN [state |-> [state EXCEPT !.terminated = TRUE], result |-> "Ok"]
    ELSE IF ~Day5Readable(instr.parameters[1], state)
              \/ ~Day5Readable(instr.parameters[2], state)
    THEN [state |-> state, result |-> "PanicIndex"]
    ELSE LET a == Day5ParameterRead(instr.parameters[1], state)
             b == Day5ParameterRead(instr.parameters[2], state)
         IN  Day5ParameterWrite(instr.parameters[3], state,
                                IF instr.opcode = "Add" THEN a + b ELSE a * b)

\* day_5: ProgramState::progress_state
Day5ProgressState(state) ==
    LET instr == Day5FetchAndDecode(state)
    IN  IF "panic" \in DOMAIN instr
        THEN [state |-> state, result |-> instr.panic]
        ELSE LET out == Day5Execute(instr, state)
             IN  IF out.result # "Ok" THEN out
                 ELSE [out EXCEPT !.state.program_counter =
                           @ + Day5OpCodeLength(instr.opcode)]

\* day_5: run_to_completion, followed for at most fuel steps.
RECURSIVE Day5RunToCompletion(_, _)
Day5RunToCompletion(state, fuel) ==
    IF state.terminated THEN [state |-> state, result |-> "Returned"]
    ELSE IF fuel = 0 THEN [state |-> state, result |-> "OutOfFuel"]
    ELSE LET out == Day5ProgressState(state)
         IN  IF out.result = "Ok" THEN Day5RunToCompletion(out.state, fuel - 1)
             ELSE out

\* ------------------------------------------- C20: arithmetic programs

\* The programs run: one Add or Multiply, a second instruction word that is
\* an Add, a Multiply or the Terminate the first may overwrite, a Terminate
\* and a data cell.  Addresses 0, 4 and 9 are cells of the image (the first
\* opcode, the second instruction word, the data cell); 10 is the first
\* address after the image.
ArithPrograms ==
    { << op1, a1, b1, c1, w, a2, b2, c2, 99, 3 >> :
        op1 \in {1, 2}, a1 \in {0, 4, 9}, b1 \in {0, 9, 10}, c1 \in {0, 4, 10},
        w \in {1, 2, 99}, a2 \in {0, 9}, b2 \in {1, 9}, c2 \in {0, 10} }
    \cup { TestAdd, TestMul, TestNontrivial }

\* A program is chosen; nothing has run.
InitArith ==
    /\ program \in ArithPrograms
    /\ final = << >>
    /\ before = << >>
    /\ mem = PagedMemoryNew
    /\ inputs = << >> /\ outputs = << >>
    /\ program_counter = 0 /\ relative_base = 0 /\ terminated = FALSE
    /\ host = "idle" /\ result = "None" /\ last = "new"
    /\ image = 0 /\ pushed = << >>
    /\ awaiting = NotAwaiting /\ suspended_once = FALSE
    /\ written = << >> /\ got = 0
    /\ decoded = [panic |-> "None"]
    /\ heap = << >> /\ amps = << >>
    /\ ring = << >>

arithframe == << vmvars, host, result, image, pushed, awaiting, suspended_once,
                 written, got, decoded, heap, amps, before, program, ring >>

\* day_2: ProgramState::new(program).run_to_completion()
RunDay2 ==
    /\ last = "new"
    /\ LET out == Day2RunToCompletion(Day2New(program), MaxFuel)
       IN  final' = [by |-> "day_2", result |-> out.result,
                     values |-> out.state.values, mem |-> PagedMemoryNew]
    /\ last' = "run_to_completion"
    /\ UNCHANGED arithframe

\* day_5: ProgramState::new(program).run_to_completion()
RunDay5 ==
    /\ last = "new"
    /\ LET out == Day5RunToCompletion(Day5New(program), MaxFuel)
       IN  final' = [by |-> "day_5", result |-> out.result,
                     values |-> out.state.values, mem |-> PagedMemoryNew]
    /\ last' = "run_to_completion"
    /\ UNCHANGED arithframe

\* intcode_vm: ProgramState::new(program, VecDeque::new()).run_to_completion()
RunIntcodeVm ==
    /\ last = "new"
    /\ LET out == RunToCompletionFrom(ProgramStateNew(program, << >>), MaxFuel)
       IN  final' = [by |-> "intcode_vm", result |-> out.result,
                     values |-> << >>, mem |-> out.state.mem]
    /\ last' = "run_to_completion"
    /\ UNCHANGED arithframe

NextArith == RunDay2 \/ RunDay5 \/ RunIntcodeVm

SpecArith == InitArith /\ [][NextArith]_vars

\* The memory the instructions are applied to one after another: the cells
\* written so far (at first those of the image); every other cell is 0.
CellsFrom(values) == [addr \in 0..(Len(values) - 1) |-> values[addr + 1]]

CellAt(cells, addr) == IF addr \in DOMAIN cells THEN cells[addr] ELSE 0

CellPut(cells, addr, value) ==
    [a \in (DOMAIN cells) \cup {addr} |-> IF a = addr THEN value ELSE cells[a]]

\* The Position-mode instructions applied in address order from `at`, each
\* to the cells the earlier ones left: word 1 adds, word 2 multiplies, word 99
\* ends ("Done"); any other word is no such instruction ("NotSuch").  inside
\* tells whether every address used so far was an address of the image.
RECURSIVE ApplyInOrder(_, _, _, _, _)
ApplyInOrder(cells, at, size, inside, fuel) ==
    LET word == CellAt(cells, at)
    IN  IF word = 99
        THEN [cells |-> cells, result |-> "Done", inside |-> inside /\ at < size]
        ELSE IF word \notin {1, 2} \/ fuel = 0
        THEN [cells |-> cells, result |-> "NotSuch", inside |-> inside]
        ELSE LET src1 == CellAt(cells, at + 1)
                 src2 == CellAt(cells, at + 2)
                 dst  == CellAt(cells, at + 3)
                 a    == CellAt(cells, src1)
                 b    == CellAt(cells, src2)
             IN  ApplyInOrder(
                     CellPut(cells, dst, IF word = 1 THEN a + b ELSE a * b),
                     at + 4, size,
                     inside /\ (\A addr \in {at + 3, src1, src2, dst} : addr < size),
                     fuel - 1)

\* The instructions of the chosen program applied in order from address 0.
InOrder == ApplyInOrder(CellsFrom(program), 0, Len(program), TRUE, MaxFuel)

\* The memory the interpreter that ran was left with is cell for cell the
\* given one.
FinalMemoryIs(cells) ==
    IF final.by = "intcode_vm"
    THEN \A addr \in (DOMAIN cells) \cup CellsOf(final.mem) :
            read_addr(final.mem, addr) = CellAt(cells, addr)
    ELSE /\ DOMAIN cells = 0..(Len(final.values) - 1)
         /\ \A addr \in DOMAIN cells : final.values[addr + 1] = cells[addr]

\* C20 as stated: whenever the program is made of Position-mode Add and
\* Multiply instructions ended by a Terminate, each of day_2, day_5 and
\* intcode_vm runs it to completion and leaves memory equal to the
\* instructions applied one after another in address order from address 0.
C20_InOrderAllPrograms ==
    (final # << >> /\ InOrder.result = "Done")
    => (final.result = "Returned" /\ FinalMemoryIs(InOrder.cells))

\* C20 as amended: so it is for intcode_vm, and for day_2 and day_5 when
\* every address the instructions use is an address of the loaded image.
C20_InOrder ==
    (final # << >> /\ InOrder.result = "Done"
        /\ (final.by = "intcode_vm" \/ InOrder.inside))
    => (final.result = "Returned" /\ FinalMemoryIs(InOrder.cells))

\* day_2 ran a program whose first instruction replaced the Terminate at
\* address 4 by a Multiply, which then ran on the cells it found.
C20_Witness ==
    /\ final # << >>
    /\ final.by = "day_2"
    /\ final.result = "Returned"
    /\ program[5] = 99
    /\ final.values[5] = 2
    /\ final.values # [program EXCEPT ![5] = 2]
    /\ InOrder.result = "Done"
    /\ InOrder.inside

\* ------------------------------------- C21: the reference branch program

\* The host of the tests: it builds the ProgramState with its inputs and
\* calls run_to_completion.
NextComplete ==
    \/ RunToCompletionCall
    \/ RunToCompletionIterate
    \/ RunToCompletionReturn

SpecComplete == Init /\ [][NextComplete]_vars

\* The single output the problem statement gives for the input x.
BranchOutput(x) == IF x = 0 THEN 0 ELSE 1

\* C21: the program [3,12,6,12,15,1,13,14,13,4,13,99,-1,0,1,9] constructed
\* with the single input x and run to completion never faults, returns within
\* MaxFuel steps, and when run_to_completion has returned it is terminated
\* with exactly one output: 0 when x is 0 and 1 when x is non-zero, positive
\* or negative.
C21_BranchProgram ==
    (Programs[image] = TestJumpIfTrue /\ Len(pushed) = 1)
        => /\ host # "panicked"
           /\ Len(outputs) <= 1
           /\ last = "new" /\ host = "idle"
                => LET run == RunToCompletionFrom(Self, MaxFuel)
                   IN  /\ run.result = "Returned"
                       /\ run.state.outputs = << BranchOutput(pushed[1]) >>
           /\ last = "run_to_completion"
                => /\ terminated
                   /\ inputs = << >>
                   /\ outputs = << BranchOutput(pushed[1]) >>

\* run_to_completion has returned on the branch program given a negative
\* input.
C21_Witness ==
    /\ Programs[image] = TestJumpIfTrue
    /\ pushed = << -1 >>
    /\ host = "idle"
    /\ last = "run_to_completion"
    /\ outputs = << 1 >>

\* ------------------------------------------ C22: the output queue grows

\* The value the parameter of the WriteOutput at program_counter resolves to.
OutputValue == ParameterRead(fetch_and_decode(Self).parameters[1], Self)

\* C22: a step whose instruction is WriteOutput leaves the output queue
\* extended at the back by exactly the resolved value of its parameter, and
\* every other step, faulting or blocked ones included, leaves the output
\* queue as it was: no step removes or reorders outputs.
C22_OutputAppendOnly ==
    [][ StepTaken
            => IF OpcodeAt(Self) = "WriteOutput"
               THEN outputs' = Append(outputs, OutputValue)
               ELSE outputs' = outputs ]_vars

\* Two different values were written, the second behind the first.
C22_Witness ==
    /\ Programs[image] = EchoSum
    /\ pushed = << 4, -1 >>
    /\ result = "Ok"
    /\ outputs = << 4, 3 >>

\* ------------------------------------------ C23: the input queue is FIFO

\* A step that executes a ReadInput with a value to read and completes.
SuccessfulReadInput ==
    /\ StepTaken
    /\ OpcodeAt(Self) = "ReadInput"
    /\ inputs # << >>
    /\ result' = "Ok"

\* Each successful ReadInput removes exactly the front value of the input
\* queue and writes it to its destination, the rest keeping its order, and a
\* step of any other instruction leaves the input queue as it was.
InputsFirstInFirstOut ==
    [][ /\ SuccessfulReadInput
            => /\ inputs' = Tail(inputs)
               /\ read_addr(mem', WriteTarget(ReadInputDst, Self)) = Head(inputs)
        /\ (StepTaken /\ OpcodeAt(Self) # "ReadInput") => inputs' = inputs ]_vars

\* The values queued when the program terminates stay in the queue: the step
\* that executes Terminate leaves them, and so does every interpreter
\* operation on the terminated instance.
QueuedInputsStay ==
    [][ /\ (StepTaken /\ ~terminated /\ terminated') => inputs' = inputs
        /\ (terminated /\ InterpreterOperation) => inputs' = inputs ]_vars

\* C23: inputs are consumed first-in first-out (each successful ReadInput
\* removes exactly the front value and writes it to its destination, the
\* remaining values keep their order, no other instruction changes the input
\* queue), and the values still queued when the program terminates stay in
\* the queue.
C23_InputsFifo == InputsFirstInFirstOut /\ QueuedInputsStay

\* --------------------------------------------- C24: the constructed state

\* No host operation has completed or begun since ProgramState::new.
Fresh == last = "new" /\ host = "idle"

\* Addresses outside the first page, up to the last one.
FarAddrs == { PAGE_SIZE, PAGE_SIZE + 1, 1000, 10000000, UsizeModulus - 1 }

\* C24: a ProgramState constructed from the sequence s has program_counter
\* 0, relative_base 0, terminated false, an empty output queue, the input
\* queue exactly as supplied, and memory reading s[i] at address i for every
\* i below the length of s and 0 at every other address (every other cell of
\* an allocated page, and addresses of pages never allocated).
C24_Constructed ==
    Fresh =>
        LET s == Programs[image]
        IN  /\ program_counter = 0
            /\ relative_base = 0
            /\ ~terminated
            /\ outputs = << >>
            /\ inputs = pushed
            /\ \A a \in CellsOf(mem) \cup FarAddrs :
                   read_addr(mem, a) = IF a < Len(s) THEN s[a + 1] ELSE 0

\* The branch program constructed with two inputs.
C24_Witness ==
    /\ Fresh
    /\ Programs[image] = TestJumpIfTrue
    /\ inputs = << 0, 4 >>
    /\ read_addr(mem, 12) = -1
    /\ read_addr(mem, 15) = 9
    /\ read_addr(mem, 16) = 0

\* --------------------------------------------- C25: reads do not allocate

\* The indices of the pages allocated.
AllocatedPages == DOMAIN mem

\* C25: read_addr leaves the set of allocated pages as it found it, and after
\* any sequence of reads and writes the allocated page indices are exactly
\* the values a div 256 of the addresses a written, so that there are no more
\* pages than addresses written, however large the addresses read or written.
C25_ReadsDoNotAllocate ==
    /\ [](AllocatedPages = { a \div 256 : a \in DOMAIN written })
    /\ [](Cardinality(AllocatedPages) <= Cardinality(DOMAIN written))
    /\ [][ (\E addr \in ReadAddrs : ReadAddr(addr))
              => AllocatedPages' = AllocatedPages ]_vars

\* Two pages are allocated, the one of the very large address written among
\* them, and a never-written address of a third page was read as 0.
C25_Witness ==
    /\ DOMAIN written = {1234, 10000000}
    /\ Cardinality(AllocatedPages) = 2
    /\ got = 0
    /\ written[1234] # 0
    /\ read_addr(mem, 9999999) = 0

\* ------------------------------------ the amplifier ring driver of day 7

\* Most amplifiers in a ring.
MaxAmps == 2

\* Most turns of the loop followed: a ring whose last amplifier never
\* terminates goes round for ever, its queues growing.
MaxTurns == 6

\* The phase settings handed to the amplifiers.
RingPhases == {0, 1, 2}

\* read the phase, then twice: read a signal and write one (signal + phase,
\* then signal * 2)
Amplifier ==
    << 3, 20, 3, 21, 1, 20, 21, 21, 4, 21, 3, 21, 102, 2, 21, 21, 4, 21, 99,
       0, 0, 0 >>
\* read the phase and a signal, write the signal and then the phase
SignalThenPhase == << 3, 9, 3, 10, 4, 10, 4, 9, 99, 0, 0 >>
\* read the phase and write it, then read signals for ever
Sink == << 3, 9, 4, 9, 3, 9, 1105, 1, 4, 0 >>

RingPrograms == << Amplifier, SignalThenPhase, Sink, TestAdd, EchoUntilZero >>

\* The last element of a non-empty queue: outputs.back()
Back(queue) == queue[Len(queue)]

ringframe == << vmvars, hostvars, written, got, decoded, heap, amps, before,
                program, final >>

\* test_phase_settings is entered with a loaded program and the phase
\* settings; amps is empty, signal and idx are 0.  History: ran is the index
\* of the amplifier run last (-1 when none was), held its output queue when
\* that call began, produced the values it appended during the call, and
\* turns the number of turns begun.
InitRing ==
    /\ ring \in [ program        : { ProgramStateNew(RingPrograms[i], << >>) :
                                       i \in 1..Len(RingPrograms) },
                  phase_settings : SeqsUpTo(RingPhases, MaxAmps) \ { << >> },
                  amps           : { << >> },
                  signal         : {0},
                  idx            : {0},
                  at             : {"clone"},
                  ran            : {-1},
                  held           : { << >> },
                  produced       : { << >> },
                  turns          : {0},
                  result         : {"None"} ]
    /\ mem = PagedMemoryNew
    /\ inputs = << >> /\ outputs = << >>
    /\ program_counter = 0 /\ relative_base = 0 /\ terminated = FALSE
    /\ host = "idle" /\ result = "None" /\ last = "new"
    /\ image = 0 /\ pushed = << >>
    /\ awaiting = NotAwaiting /\ suspended_once = FALSE
    /\ written = << >> /\ got = 0
    /\ decoded = [panic |-> "None"]
    /\ heap = << >> /\ amps = << >>
    /\ before = << >> /\ program = << >> /\ final = << >>

\* One iteration of `for phase_setting in phase_settings`: clone the program,
\* push the phase setting, push the amplifier.
RingClone ==
    /\ ring.at = "clone"
    /\ LET k   == Len(ring.amps) + 1
           amp == [ring.program EXCEPT
                       !.inputs = Append(@, ring.phase_settings[k])]
       IN  ring' = [ring EXCEPT
                        !.amps = Append(@, amp),
                        !.at   = IF k = Len(ring.phase_settings)
                                 THEN "while" ELSE "clone"]
    /\ UNCHANGED ringframe

\* The loop test as it would be if it looked at the first amplifier.
RingWhileFirst ==
    /\ ring.at = "while"
    /\ ring' = [ring EXCEPT
                    !.at = IF ring.amps[1].terminated
                           THEN "returned" ELSE "push"]
    /\ UNCHANGED ringframe

\* while !amps.last().unwrap().terminated
RingWhile ==
    /\ ring.at = "while"
    /\ ring' = [ring EXCEPT
                    !.at = IF Back(ring.amps).terminated
                           THEN "returned" ELSE "push"]
    /\ UNCHANGED ringframe

\* amps[idx].inputs.push_back(signal)
RingPush ==
    /\ ring.at = "push"
    /\ ring.turns < MaxTurns
    /\ ring' = [ring EXCEPT
                    !.amps[ring.idx + 1].inputs = Append(@, ring.signal),
                    !.turns = @ + 1,
                    !.at = "run"]
    /\ UNCHANGED ringframe

\* amps[idx].run_to_next_input()
RingRun ==
    /\ ring.at = "run"
    /\ LET amp == ring.amps[ring.idx + 1]
           out == RunToNextInputFrom(amp, MaxFuel)
       IN  /\ out.result # "OutOfFuel"
           /\ ring' = [ring EXCEPT
                           !.amps[ring.idx + 1] = out.state,
                           !.ran      = ring.idx,
                           !.held     = amp.outputs,
                           !.produced = SubSeq(out.state.outputs,
                                               Len(amp.outputs) + 1,
                                               Len(out.state.outputs)),
                           !.result   = out.result,
                           !.at       = IF out.result = "Returned"
                                        THEN "back" ELSE "panicked"]
    /\ UNCHANGED ringframe

\* The end of the loop body as it would be with outputs.front() in place of
\* outputs.back().
RingBackFront ==
    /\ ring.at = "back"
    /\ LET amp == ring.amps[ring.idx + 1]
       IN  ring' = IF amp.outputs = << >>
                   THEN [ring EXCEPT !.at = "panicked",
                                     !.result = "PanicUnwrapNone"]
                   ELSE [ring EXCEPT
                             !.signal = Head(amp.outputs),
                             !.idx    = (ring.idx + 1) % Len(ring.amps),
                             !.at     = "while"]
    /\ UNCHANGED ringframe

\* signal = *amps[idx].outputs.back().unwrap(); idx = (idx + 1) % amps.len():
\* the value at the back is copied, nothing is removed, and unwrap panics
\* when the queue is empty.
RingBack ==
    /\ ring.at = "back"
    /\ LET amp == ring.amps[ring.idx + 1]
       IN  ring' = IF amp.outputs = << >>
                   THEN [ring EXCEPT !.at = "panicked",
                                     !.result = "PanicUnwrapNone"]
                   ELSE [ring EXCEPT
                             !.signal = Back(amp.outputs),
                             !.idx    = (ring.idx + 1) % Len(ring.amps),
                             !.at     = "while"]
    /\ UNCHANGED ringframe

NextRing ==
    \/ RingClone
    \/ RingWhile
    \/ RingPush
    \/ RingRun
    \/ RingBack

SpecRing == InitRing /\ [][NextRing]_vars

\* --------------------------------- C26: what the ring driver forwards

\* The amplifier run last, and the one the signal is pushed to next.
RanLast == ring.amps[ring.ran + 1]
PushedNext == ring.idx + 1

\* A push that follows a call: the driver forwards from the amplifier run
\* last to the next one.
Forwards == RingPush /\ ring.ran # -1

\* The instances are visited round-robin: the first call is on amplifier 0
\* and every other one on the amplifier after the one run last, the last
\* followed by amplifier 0.
RoundRobin ==
    RingRun => ring.idx = IF ring.ran = -1 THEN 0
                          ELSE (ring.ran + 1) % Len(ring.amps)

\* C26 as stated: instances are visited round-robin, and after each
\* run_to_next_input call every value the instance produced during the call
\* is drained from its output queue and pushed, in order, onto the input
\* queue of the next instance in the ring.
C26_RingDrainsAll ==
    [][ /\ RoundRobin
        /\ Forwards
            => /\ RanLast.outputs = ring.held
               /\ ring'.amps[PushedNext].inputs =
                      ring.amps[PushedNext].inputs \o ring.produced ]_vars

\* C26: instances are visited round-robin, and after a run_to_next_input
\* call on an instance, when the loop goes on, the value at the back of that
\* instance's output queue (the last value it has produced, during this call
\* or an earlier one) is pushed onto the input queue of the next instance in
\* the ring; no value is ever removed from an output queue, and the driver
\* panics when the queue of the instance just run is empty.
C26_RingForwardsBack ==
    [][ /\ RoundRobin
        /\ Forwards
            => ring'.amps[PushedNext].inputs =
                   Append(ring.amps[PushedNext].inputs, Back(RanLast.outputs))
        /\ (RingPush \/ RingBack \/ RingWhile)
            => \A k \in 1..Len(ring.amps) :
                   ring'.amps[k].outputs = ring.amps[k].outputs
        /\ RingRun
            => ring'.amps[ring.idx + 1].outputs = ring'.held \o ring'.produced
        /\ RingBack
            => (ring'.at = "panicked") = (ring.amps[ring.idx + 1].outputs = << >>)
      ]_vars

\* An amplifier wrote two different values during one call and the driver
\* has pushed to the next amplifier since.
C26_Witness ==
    /\ ring # << >>
    /\ ring.at = "run"
    /\ ring.ran = 0
    /\ ring.idx = 1
    /\ ring.produced = << 0, 2 >>
    /\ ring.amps[1].outputs = << 0, 2 >>
    /\ ring.amps[2].inputs = << 1, 2 >>

\* ------------------------- C28: run_to_next_input with nothing to run

\* The instance cannot run: it is terminated, or its next instruction is a
\* ReadInput and its input queue is empty.
CannotRun(state) ==
    \/ state.terminated
    \/ OpcodeAt(state) = "ReadInput" /\ state.inputs = << >>

\* C28: run_to_next_input on an instance that is suspended on a ReadInput
\* with an empty input queue, or that is terminated, returns at once, with
\* memory, program_counter, relative_base, both queues and the terminated
\* flag as they were and without a fault; the call as one computation gives
\* back the state it was given, so repeating it makes no progress.
C28_NothingToRun ==
    /\ [][ (host = "run_to_next_input" /\ CannotRun(Self))
              => (host' = "idle" /\ UNCHANGED vmvars) ]_vars
    /\ [](CannotRun(Self)
              => RunToNextInputFrom(Self, MaxFuel) =
                     [state |-> Self, result |-> "Returned"])

\* EchoSum was given one input and wrote it; the host popped the output while
\* the program stood at its second ReadInput with nothing queued, and the
\* run_to_next_input called after that has returned.
C28_Witness ==
    /\ Programs[image] = EchoSum
    /\ pushed = << 4 >>
    /\ host = "idle"
    /\ last = "run_to_next_input"
    /\ awaiting.status = "suspended"
    /\ program_counter = 4
    /\ inputs = << >>
    /\ outputs = << >>

\* ------------------------------ C29: when run_to_next_input returns

InRunToNextInput == host = "run_to_next_input"

\* What lies ahead of the instance: within MaxFuel steps it reaches a
\* Terminate or a ReadInput with an empty input queue, or a fatal fault; or
\* it stands at an instruction that succeeds and changes nothing, such as a
\* jump to its own address, and so reaches none of them.
Ahead == RunToNextInputFrom(Self, MaxFuel).result
ReachesStop == Ahead = "Returned"
ReachesFault == Ahead \notin {"Returned", "OutOfFuel"}
StepsInPlace == progress_state(Self) = [state |-> Self, result |-> "Ok"]

\* The number of steps that succeed before the instance stops, faults or
\* has used the fuel.
RECURSIVE StepsBefore(_, _)
StepsBefore(state, fuel) ==
    IF state.terminated \/ fuel = 0 THEN 0
    ELSE LET out == progress_state(state)
         IN  IF out.result = "Ok" THEN 1 + StepsBefore(out.state, fuel - 1)
             ELSE 0

StepsLeft == StepsBefore(Self, MaxFuel)

\* C29: a call of run_to_next_input whose execution reaches a Terminate or a
\* ReadInput with an empty input queue after n steps takes those n steps,
\* each leaving one fewer, and then returns, and it returns nowhere else; one
\* that reaches a fatal fault aborts there; and one that reaches none of
\* them, the program jumping to its own address, goes on stepping whatever
\* the number of steps taken: nothing but the program ends the call.
C29_ReturnsIffStops ==
    /\ [][ (InRunToNextInput /\ (ReachesStop \/ ReachesFault))
              => IF StepsLeft > 0
                 THEN /\ InRunToNextInput'
                      /\ StepsBefore(Self', MaxFuel) = StepsLeft - 1
                      /\ RunToNextInputFrom(Self', MaxFuel).result = Ahead
                 ELSE IF ReachesStop
                      THEN host' = "idle" /\ last' = "run_to_next_input"
                      ELSE host' = "panicked" ]_vars
    /\ [][ (InRunToNextInput /\ host' = "idle") => CannotRun(Self') ]_vars
    /\ [](InRunToNextInput => (ReachesStop \/ ReachesFault \/ StepsInPlace))
    /\ []((InRunToNextInput /\ StepsInPlace)
             => (Ahead = "OutOfFuel" /\ ~terminated))
    /\ [][ (InRunToNextInput /\ StepsInPlace)
              => (InRunToNextInput' /\ Self' = Self) ]_vars

\* run_to_next_input is stepping the program that jumps to its own address.
C29_Witness ==
    /\ Programs[image] = Spin
    /\ InRunToNextInput
    /\ result = "Ok"
    /\ program_counter = 0

\* -------------------------------------------- C30: what a write changes

\* mem.write_addr(addr, value) was called, by the host or as the patch.
Wrote(addr, value) ==
    /\ addr \in DOMAIN written'
    /\ written'[addr] = value
    /\ WriteAddr(addr, value)

\* Every cell other than the one at addr holds in pages q what it held in
\* pages p, a cell of a page not allocated holding 0.
SameExceptAt(p, q, addr) ==
    /\ DOMAIN p \subseteq DOMAIN q
    /\ \A i \in DOMAIN q :
           LET old == IF i \in DOMAIN p THEN p[i] ELSE [o \in 0..255 |-> 0]
           IN  IF i = addr \div 256
               THEN [q[i] EXCEPT ![addr % 256] = 0] = [old EXCEPT ![addr % 256] = 0]
               ELSE q[i] = old

\* C30: write_addr(a, v) changes the value read at address a only: every
\* other address, in the page of a or in another page, reads after the write
\* what it read before, and a reads v; so the patch of day 13 applied to the
\* loaded image leaves an image that differs from the one loaded at address
\* 0 only, where it holds 2.
C30_WriteFrame ==
    [][ /\ \A addr \in WriteAddrs, value \in MemValues \cup {PatchValue} :
               Wrote(addr, value)
                   => /\ read_addr(mem', addr) = value
                      /\ SameExceptAt(mem, mem', addr)
                      /\ \A b \in ReadAddrs \ {addr} :
                             read_addr(mem', b) = read_addr(mem, b)
        /\ (Day13Patch /\ written = ImageCells(Programs[image]))
               => \A b \in CellsOf(mem') \cup ReadAddrs :
                      read_addr(mem', b) =
                          IF b = 0 THEN 2
                          ELSE IF b < Len(Programs[image])
                               THEN Programs[image][b + 1] ELSE 0 ]_vars

\* The loaded image was patched and then written to in another page: address
\* 0 holds 2, address 1 what was loaded.
C30_Witness ==
    /\ image # 0
    /\ read_addr(mem, 0) = 2
    /\ read_addr(mem, 1) = Programs[image][2]
    /\ read_addr(mem, 256) = 42
    /\ read_addr(mem, 255) = 0
    /\ DOMAIN written = (DOMAIN ImageCells(Programs[image])) \cup {256}

\* ------------------------------- C31: what a fault leaves of the state

\* The step was the unrecognized-opcode or the unrecognized-mode fault.
DecodeFault ==
    /\ last = "progress_state"
    /\ result \in {"PanicUnrecognizedOpcode", "PanicUnrecognizedMode"}

\* The step was on a ReadInput whose destination is Immediate, with a value
\* in the input queue.
ImmediateReadWithInput ==
    /\ last = "progress_state"
    /\ SteppedWord = 103
    /\ before.inputs # << >>

\* C31: at an unrecognized-opcode or unrecognized-mode fault memory,
\* program_counter, relative_base, both queues and terminated are what they
\* were before the step, the fault being raised while decoding; a ReadInput
\* with an Immediate destination and a non-empty input queue faults on its
\* write after the front input value was removed, everything else being as
\* before the step.
C31_FaultsAndMutation ==
    /\ DecodeFault => (Self = before /\ host = "panicked" /\ ~Decoded(decoded))
    /\ ImmediateReadWithInput
          => /\ result = "PanicImmediateWrite"
             /\ host = "panicked"
             /\ inputs = Tail(before.inputs)
             /\ Self = [before EXCEPT !.inputs = Tail(@)]

\* A ReadInput with an Immediate destination was stepped with the value 7
\* queued: the queue is empty at the fault and memory is as it was.
C31_Witness ==
    /\ ImmediateReadWithInput
    /\ before.inputs = << 7 >>
    /\ inputs = << >>
    /\ mem = before.mem
    /\ result = "PanicImmediateWrite"

\* ------------------------------ C32: digits above the mode digits

\* The number of parameters of the opcode of the stepped word.
ParameterCount ==
    (CHOOSE ins \in InstructionSet : ins[1] = SteppedWord % 100)[3]

\* The stepped word has a recognized opcode and digits above the mode digits
\* of its parameters.
ExtraDigits ==
    /\ last = "progress_state"
    /\ SteppedWord >= 0
    /\ \E ins \in InstructionSet : ins[1] = SteppedWord % 100
    /\ SteppedWord >= 100 * 10 ^ ParameterCount

\* The stepped word with those digits removed.
Stripped == SteppedWord % (100 * 10 ^ ParameterCount)

\* The state before the step with the stripped word in place of the word.
Twin ==
    [before EXCEPT !.mem = write_addr(@, before.program_counter, Stripped)]

\* C32: a word with digits above its opcode's N mode digits decodes to the
\* Instruction the word without them decodes to (the same opcode, the same
\* modes and contents, or the same fault when one of the N digits is no
\* mode), and its step is that Instruction executed on the state: the extra
\* digits cause no fault and change nothing of the outcome.
C32_ExtraDigitsIgnored ==
    ExtraDigits =>
        LET instr == fetch_and_decode(Twin)
        IN  /\ decoded = instr
            /\ IF Decoded(instr)
               THEN /\ instr.opcode =
                          (CHOOSE ins \in InstructionSet :
                               ins[1] = Stripped % 100)[2]
                    /\ Len(instr.parameters) = ParameterCount
                    /\ Self = execute(instr, before).state
                    /\ result = execute(instr, before).result
               ELSE /\ result = "Panic" \o instr.panic
                    /\ Self = before
            /\ (SteppedWord \in {30099, 1000001}) => result = "Ok"

\* The Add 1000001 was stepped as the Add 1 is: three Position parameters,
\* the sum of the cells 0 and 2 written to cell 0.
C32_Witness ==
    /\ ExtraDigits
    /\ SteppedWord = 1000001
    /\ Stripped = 1
    /\ result = "Ok"
    /\ before.relative_base = 0
    /\ read_addr(before.mem, 3) = 0
    /\ read_addr(before.mem, 4) = 2
    /\ read_addr(before.mem, 5) = 0
    /\ read_addr(mem, 0) = 1000010
    /\ program_counter = 6

\* ------------------------------- programs that leave their own image

\* jump to an address of a page never allocated
JumpOut == << 1105, 1, 1000 >>
\* jump to a cell of the image's page behind the image
JumpPast == << 1105, 1, 5 >>
\* an Add whose third operand lies behind the image
ShortAdd == << 1101, 1, 1 >>
\* a WriteOutput whose operand lies behind the image
ShortOutput == << 4 >>

\* 3 + 4 is written through the Position operand -1 and read back through
\* it; the cell at -2 is read without having been written
NegativeCell == << 1101, 3, 4, -1, 4, -1, 4, -2, 99 >>
\* the same through Relative operands 2 and 1 under relative_base -5
NegativeBase == << 109, -5, 21101, 3, 4, 2, 204, 2, 204, 1, 99 >>
\* an input is read into the cell at -1 and doubled from there
NegativeInput == << 3, -1, 1, -1, -1, -3, 4, -3, 99 >>

FetchPrograms ==
    { Programs[i] : i \in 1..Len(Programs) }
        \cup { JumpOut, JumpPast, ShortAdd, ShortOutput,
               NegativeCell, NegativeBase, NegativeInput }

\* ProgramState::new(program, inputs).  History: written holds, for every
\* address written so far, the value written last; the From loop wrote the
\* cells of the image.
InitFetch ==
    /\ program \in FetchPrograms
    /\ pushed \in SeqsUpTo(InputValues, MaxInputs)
    /\ LET state == ProgramStateNew(program, pushed)
       IN  /\ mem = state.mem
           /\ inputs = state.inputs
           /\ outputs = state.outputs
           /\ program_counter = state.program_counter
           /\ relative_base = state.relative_base
           /\ terminated = state.terminated
    /\ written = ImageCells(program)
    /\ host = "idle" /\ result = "None" /\ last = "new"
    /\ image = 0
    /\ awaiting = NotAwaiting /\ suspended_once = FALSE
    /\ got = 0
    /\ decoded = [panic |-> "None"]
    /\ heap = << >> /\ amps = << >>
    /\ before = << >> /\ final = << >>
    /\ ring = << >>

\* The addresses a step of instr on state passes to write_addr: the target
\* of the destination parameter of Add, Multiply, LessThan, Equals and of a
\* ReadInput that has a value, unless the target is Immediate.
WriteAddrsOf(instr, state) ==
    LET dst == CASE instr.opcode \in {"Add", "Multiply", "LessThan", "Equals"} -> 3
                 [] instr.opcode = "ReadInput" /\ state.inputs # << >> -> 1
                 [] OTHER -> 0
    IN  IF dst = 0 \/ instr.parameters[dst].mode = "Immediate" THEN {}
        ELSE { WriteTarget(instr.parameters[dst], state) }

\* One progress_state of a run, the Instruction it decoded and the address
\* it wrote being recorded.
FetchStep ==
    /\ host = "idle"
    /\ ~terminated
    /\ LET instr == fetch_and_decode(Self)
           out   == progress_state(Self)
           addrs == IF Decoded(instr) THEN WriteAddrsOf(instr, Self) ELSE {}
       IN  /\ Install(out.state)
           /\ result' = out.result
           /\ host' = IF IsPanic(out.result) THEN "panicked" ELSE "idle"
           /\ decoded' = instr
           /\ before' = Self
           /\ written' = [a \in (DOMAIN written) \cup addrs |->
                             IF a \in addrs THEN read_addr(out.state.mem, a)
                             ELSE written[a]]
    /\ last' = "progress_state"
    /\ UNCHANGED << image, pushed, awaiting, suspended_once, got, heap, amps,
                    program, final, ring >>

NextFetch == FetchStep

SpecFetch == InitFetch /\ [][NextFetch]_vars

\* ------------------------------------------------------------------ C33

\* The step about to be taken fetches its instruction word from an address
\* that nothing has written.
FetchesUnwritten == program_counter \notin DOMAIN written

\* The operands of the Instruction decoded by the step that lie at addresses
\* nothing had written when the step began.
UnwrittenOperands(instr) ==
    { i \in 1..Len(instr.parameters) :
          UsizeAdd(program_counter, i) \notin DOMAIN written }

\* C33: a step that fetches from a never-written address reads the word 0
\* without any out-of-bounds fault and panics with an unrecognized opcode,
\* the machine being left as it was; an operand fetched from a never-written
\* address is decoded with the contents 0; every written address holds the
\* value written to it last.
C33_UnwrittenReadsZero ==
    [][ FetchStep =>
          /\ \A a \in DOMAIN written : read_addr(mem, a) = written[a]
          /\ FetchesUnwritten =>
                /\ read_addr(mem, program_counter) = 0
                /\ result' = "PanicUnrecognizedOpcode"
                /\ host' = "panicked"
                /\ Self' = Self
          /\ Decoded(decoded') =>
                \A i \in UnwrittenOperands(decoded') :
                    decoded'.parameters[i].contents = 0 ]_vars

\* ShortAdd took its third operand from behind its image, wrote the sum to
\* address 0 and then ran off the image into the panic.
C33_Witness ==
    /\ program = ShortAdd
    /\ last = "progress_state"
    /\ result = "PanicUnrecognizedOpcode"
    /\ host = "panicked"
    /\ program_counter = 4
    /\ before.program_counter = 4
    /\ 3 \notin DOMAIN written /\ 4 \notin DOMAIN written
    /\ written[0] = 2
    /\ read_addr(mem, 0) = 2
    /\ ~terminated

\* ------------------------------------------------------------------ C34

\* state with another output queue
WithOutputs(state, queue) == [state EXCEPT !.outputs = queue]

\* Output queues the host can have left instead of the one at hand: emptied,
\* its front popped, or one more value still waiting at the front.
OtherOutputs(state) ==
    { << >>, << 5 >> \o state.outputs }
        \cup (IF state.outputs = << >> THEN {} ELSE { Tail(state.outputs) })

SameButOutputs(s, t) ==
    /\ s.mem = t.mem
    /\ s.program_counter = t.program_counter
    /\ s.relative_base = t.relative_base
    /\ s.terminated = t.terminated
    /\ s.inputs = t.inputs

\* a and b are the outcomes of one operation on state and on state with the
\* output queue other: same result, same fields, and the same values
\* appended behind what each queue held.
SameOutcome(state, other, a, b) ==
    /\ a.result = b.result
    /\ SameButOutputs(a.state, b.state)
    /\ Len(a.state.outputs) >= Len(state.outputs)
    /\ SubSeq(a.state.outputs, 1, Len(state.outputs)) = state.outputs
    /\ b.state.outputs =
           other \o SubSeq(a.state.outputs, Len(state.outputs) + 1,
                           Len(a.state.outputs))

\* C34: in every reachable state, one progress_state and one whole
\* run_to_next_input on the state and on the same state with another output
\* queue give the same result after the same number of steps, the same mem,
\* program_counter, relative_base, terminated and inputs, and append the
\* same values to the two queues.
C34_OutputsUnobserved ==
    \A other \in OtherOutputs(Self) :
        LET twin == WithOutputs(Self, other)
        IN  /\ SameOutcome(Self, other, progress_state(Self), progress_state(twin))
            /\ SameOutcome(Self, other, RunToNextInputFrom(Self, MaxFuel),
                           RunToNextInputFrom(twin, MaxFuel))
            /\ StepsBefore(Self, MaxFuel) = StepsBefore(twin, MaxFuel)

\* The host has popped the output of an earlier run that suspended, an input
\* is queued, and the run from here appends a value to the queue the host
\* emptied.
C34_Witness ==
    /\ host = "idle"
    /\ last = "pop_front"
    /\ suspended_once
    /\ ~terminated
    /\ inputs # << >>
    /\ outputs = << >>
    /\ LET out == RunToNextInputFrom(Self, MaxFuel)
       IN  /\ out.result = "Returned"
           /\ Len(out.state.outputs) > Len(outputs)
           /\ out.state.mem # mem

\* ------------------------------------------------------------------ C35

\* The last amplifier of the ring, once the ring is built.
LastAmp(r) == r.amps[Len(r.amps)]

\* The function returns: the loop test found the flag set.
RingReturns == RingWhile /\ ring'.at = "returned"

\* C35: every amplifier is built with its phase setting as its only input;
\* the first push gives amplifier 0 the signal 0 behind its phase setting;
\* a turn (push and call) begins only from a loop test that found the last
\* amplifier not terminated, and no turn begins or goes on with that flag
\* set; the test that finds the flag set returns; the value returned is the
\* back of the output queue of the amplifier that ran last, and that
\* amplifier is the last one of the ring.
C35_PhaseSettingsLoop ==
    [][ /\ RingClone =>
              /\ Len(ring'.amps) = Len(ring.amps) + 1
              /\ LastAmp(ring').inputs = << ring.phase_settings[Len(ring'.amps)] >>
              /\ SubSeq(ring'.amps, 1, Len(ring.amps)) = ring.amps
        /\ (RingWhile /\ ring.ran = -1) =>
              \A k \in 1..Len(ring.phase_settings) :
                  ring.amps[k].inputs = << ring.phase_settings[k] >>
        /\ (RingPush /\ ring.ran = -1) =>
              /\ ring.idx = 0
              /\ ring'.amps[1].inputs = << ring.phase_settings[1], 0 >>
        /\ ring'.at = "push" => (RingWhile /\ ~LastAmp(ring).terminated)
        /\ ring'.at = "run" => (RingPush /\ ~LastAmp(ring').terminated)
        /\ RingWhile => (ring'.at = "returned") = LastAmp(ring).terminated
        /\ RingBack => ring'.at \in {"while", "panicked"}
        /\ RingReturns =>
              /\ ring'.signal = ring.signal
              /\ ring.ran = Len(ring.amps) - 1
              /\ RanLast.outputs # << >>
              /\ ring.signal = Back(RanLast.outputs)
              /\ ring.signal = Back(LastAmp(ring).outputs)
      ]_vars

\* A ring of two day 7 amplifiers has returned: the second one terminated in
\* the call made last, after the first one, and the value returned is the
\* one it wrote last.
C35_Witness ==
    /\ ring # << >>
    /\ ring.at = "returned"
    /\ ring.program = ProgramStateNew(Amplifier, << >>)
    /\ Len(ring.amps) = 2
    /\ ring.ran = 1
    /\ ring.turns >= 4
    /\ ring.amps[1].terminated /\ ring.amps[2].terminated
    /\ ring.produced # << >>
    /\ ring.signal = Back(ring.amps[2].outputs)
    /\ ring.signal # 0

\* ------------------------------------------------------------------ C36

\* The effective address of a Position or Relative parameter, as the signed
\* number the code converts.
EffectiveAddress(p, state) ==
    IF p.mode = "Position" THEN p.contents
    ELSE state.relative_base + p.contents

\* The parameters of instr that go through a negative effective address.
NegativeParameters(instr, state) ==
    { i \in 1..Len(instr.parameters) :
          /\ instr.parameters[i].mode # "Immediate"
          /\ EffectiveAddress(instr.parameters[i], state) < 0 }

\* The unsigned word a negative effective address wraps to.
Wrapped(p, state) == UsizeModulus + EffectiveAddress(p, state)

\* The parameter of instr that is written through, 0 if there is none.
Destination(instr, state) ==
    CASE instr.opcode \in {"Add", "Multiply", "LessThan", "Equals"} -> 3
      [] instr.opcode = "ReadInput" /\ state.inputs # << >> -> 1
      [] OTHER -> 0

\* The value an instruction with a destination writes.
ValueWritten(instr, state) ==
    LET a == ParameterRead(instr.parameters[1], state)
        b == ParameterRead(instr.parameters[2], state)
    IN  CASE instr.opcode = "Add"       -> a + b
          [] instr.opcode = "Multiply"  -> a * b
          [] instr.opcode = "LessThan"  -> IF a < b THEN 1 ELSE 0
          [] instr.opcode = "Equals"    -> IF a = b THEN 1 ELSE 0
          [] instr.opcode = "ReadInput" -> Head(state.inputs)

\* C36: in a step whose instruction has a parameter with a negative
\* effective address, the step does not fault because of it; a read through
\* the parameter gives the value last written to the wrapped address, 0 if
\* none was; a write through it succeeds, stores the value at the wrapped
\* address, and the value is read back through the same parameter.
C36_NegativeAddressWraps ==
    [][ FetchStep =>
          LET instr == fetch_and_decode(Self)
          IN  Decoded(instr) =>
                \A i \in NegativeParameters(instr, Self) :
                    LET p == instr.parameters[i]
                        w == Wrapped(p, Self)
                    IN  /\ result' \in {"Ok", "NoInput", "PanicImmediateWrite"}
                        /\ ParameterRead(p, Self) =
                               IF w \in DOMAIN written THEN written[w] ELSE 0
                        /\ i = Destination(instr, Self) =>
                               /\ result' = "Ok"
                               /\ read_addr(mem', w) = ValueWritten(instr, Self)
                               /\ ParameterRead(p, Self') = ValueWritten(instr, Self)
                               /\ w \in DOMAIN written'
      ]_vars

\* NegativeCell has written 7 through the operand -1, read it back through
\* -1 and read 0 through -2.
C36_Witness ==
    /\ program = NegativeCell
    /\ outputs = << 7, 0 >>
    /\ terminated
    /\ DOMAIN written = (0..8) \cup { UsizeModulus - 1 }
    /\ written[UsizeModulus - 1] = 7
    /\ read_addr(mem, UsizeModulus - 1) = 7
    /\ read_addr(mem, UsizeModulus - 2) = 0
    /\ result = "Ok"

\* ----------------------------- PartialEq<Vec<T>> for PagedMemory<T>

\* The comparison as it would be if it were an equality of the whole
\* memory: the cells of allocated pages behind the vector must hold the
\* default value.
RECURSIVE PagedMemoryEqExact(_, _, _)
PagedMemoryEqExact(pages, other, addr) ==
    IF addr >= Len(other)
    THEN \A page \in DOMAIN pages : \A offset \in 0..(PAGE_SIZE - 1) :
             (page * PAGE_SIZE + offset >= Len(other)) => pages[page][offset] = 0
    ELSE IF read_addr(pages, addr) # other[addr + 1] THEN FALSE
    ELSE PagedMemoryEqExact(pages, other, addr + 1)

\* The loop of eq from index addr on: the first cell that differs from the
\* vector returns false, the end of the vector returns true.
RECURSIVE PagedMemoryEq(_, _, _)
PagedMemoryEq(pages, other, addr) ==
    IF addr >= Len(other) THEN TRUE
    ELSE IF read_addr(pages, addr) # other[addr + 1] THEN FALSE
    ELSE PagedMemoryEq(pages, other, addr + 1)

\* The longest vector compared.
MaxVec == 3

EqAddrs == {0, 1, 2, 256}

EqValues == {0, 5}

\* PagedMemory::new(); got holds the outcome of the comparison made last
\* and program the vector it was made with.
InitEq ==
    /\ mem = PagedMemoryNew
    /\ got = FALSE
    /\ program = << >>
    /\ written = << >>
    /\ inputs = << >> /\ outputs = << >>
    /\ program_counter = 0 /\ relative_base = 0 /\ terminated = FALSE
    /\ host = "idle" /\ result = "None" /\ last = "new"
    /\ image = 0 /\ pushed = << >>
    /\ awaiting = NotAwaiting /\ suspended_once = FALSE
    /\ decoded = [panic |-> "None"]
    /\ heap = << >> /\ amps = << >>
    /\ before = << >> /\ final = << >>
    /\ ring = << >>

\* mem.write_addr(addr, value)
EqWrite(addr, value) ==
    /\ mem' = write_addr(mem, addr, value)
    /\ written' = [a \in (DOMAIN written) \cup {addr} |->
                      IF a = addr THEN value ELSE written[a]]
    /\ last' = "write_addr"
    /\ UNCHANGED << got, program, inputs, outputs, program_counter,
                    relative_base, terminated, host, result, image, pushed,
                    awaiting, suspended_once, decoded, heap, amps, before,
                    final, ring >>

\* mem == other
EqCompare(other) ==
    /\ got' = PagedMemoryEq(mem, other, 0)
    /\ program' = other
    /\ last' = "eq"
    /\ UNCHANGED << mem, written, inputs, outputs, program_counter,
                    relative_base, terminated, host, result, image, pushed,
                    awaiting, suspended_once, decoded, heap, amps, before,
                    final, ring >>

NextEq ==
    \/ \E addr \in EqAddrs, value \in EqValues : EqWrite(addr, value)
    \/ \E other \in SeqsUpTo(EqValues, MaxVec) : EqCompare(other)

SpecEq == InitEq /\ [][NextEq]_vars

\* ------------------------------------------------------------------ C37

\* The cells written that lie at or behind the end of the vector compared
\* last.
CellsBeyond == { a \in DOMAIN written : a >= Len(program) }

\* C37: the comparison made last was true exactly when every index below
\* the length of the vector reads the vector's value; with the empty vector
\* it was true whatever the memory holds.
C37_PrefixComparison ==
    last = "eq" =>
        /\ got = (\A i \in 0..(Len(program) - 1) :
                      (IF i \in DOMAIN written THEN written[i] ELSE 0)
                          = program[i + 1])
        /\ program = << >> => got

\* The memory holds 5 at addresses 0, 2 and 256 and was found equal to the
\* vector [5, 0]: the non-zero cells behind the vector were not compared.
C37_Witness ==
    /\ last = "eq"
    /\ got
    /\ program = << 5, 0 >>
    /\ read_addr(mem, 0) = 5
    /\ read_addr(mem, 2) = 5
    /\ read_addr(mem, 256) = 5
    /\ CellsBeyond = {2, 256}

====
